---- MODULE Spec2Model ----
(***************************************************************************)
(* A model of the file-storage adapters of heilgar/file-storage-adapter:   *)
(* BaseAdapter (key helpers, toBuffer), FsAdapter, S3Adapter and            *)
(* VercelBlobAdapter.                                                       *)
(*                                                                         *)
(* Strings (keys, paths, prefixes) are sequences of one-character strings, *)
(* so that join, startsWith, slice and endsWith are computed and not        *)
(* assumed.  An optional value is a sequence of length 0 or 1.              *)
(* Timestamps (uploadedAt) are left out of the records.                     *)
(***************************************************************************)
EXTENDS Integers, Sequences, FiniteSets, TLC

VARIABLES
    adapter,    \* which adapter class this instance is: "fs", "s3", "vercel"
    config,     \* the adapter's configuration (basePath, baseUrl), fixed at construction
    files,      \* FsAdapter: the file system, the paths that exist -> content
    objects,    \* S3Adapter / VercelBlobAdapter: the bucket, full key -> object
    last,       \* the last contract operation: its arguments, result and backend calls
    hist,       \* per key: the content of the last upload no write has followed
    pg,         \* a caller's pagination loop over list()
    inflight,   \* FsAdapter: the uploads running concurrently, each one's position
    opCount     \* the number of contract operations issued so far

vars == <<adapter, config, files, objects, last, hist, pg, inflight, opCount>>

----------------------------------------------------------------------------
(* Bounds of the model *)

\* Largest limit passed to list().
MaxLimit == 2
\* Largest number of list() calls one pagination loop may issue before the
\* model stops following it.
MaxPages == 3
\* Largest number of backend calls forced to fail within one operation.
MaxFaults == 2
\* Largest number of contract operations in one run (the calls of a
\* pagination loop are not counted).
MaxOps == 2

----------------------------------------------------------------------------
(* Strings *)

None == <<>>
Some(v) == <<v>>

StartsWith(s, p) ==
    /\ Len(p) <= Len(s)
    /\ SubSeq(s, 1, Len(p)) = p

EndsWith(s, p) ==
    /\ Len(p) <= Len(s)
    /\ SubSeq(s, Len(s) - Len(p) + 1, Len(s)) = p

\* String.prototype.slice(n): the characters from index n (0-based) on.
Slice(s, n) == IF n >= Len(s) THEN <<>> ELSE SubSeq(s, n + 1, Len(s))

RECURSIVE SplitFrom(_, _, _)
\* s.split('/') : the segments between separators, empty ones included.
SplitFrom(s, i, cur) ==
    IF i > Len(s) THEN <<cur>>
    ELSE IF s[i] = "/" THEN <<cur>> \o SplitFrom(s, i + 1, <<>>)
    ELSE SplitFrom(s, i + 1, Append(cur, s[i]))

Split(s) == SplitFrom(s, 1, <<>>)

RECURSIVE JoinSegs(_)
JoinSegs(segs) ==
    IF segs = <<>> THEN <<>>
    ELSE IF Len(segs) = 1 THEN segs[1]
    ELSE segs[1] \o <<"/">> \o JoinSegs(Tail(segs))

RECURSIVE NormalizeSegs(_, _, _)
\* node:path normalizeString: drops empty and '.' segments, resolves '..'.
NormalizeSegs(segs, res, allowAboveRoot) ==
    IF segs = <<>> THEN res
    ELSE LET s == Head(segs) IN
         IF s = <<>> \/ s = <<".">>
         THEN NormalizeSegs(Tail(segs), res, allowAboveRoot)
         ELSE IF s = <<".", ".">>
         THEN IF res # <<>> /\ res[Len(res)] # <<".", ".">>
              THEN NormalizeSegs(Tail(segs), SubSeq(res, 1, Len(res) - 1), allowAboveRoot)
              ELSE IF allowAboveRoot
              THEN NormalizeSegs(Tail(segs), Append(res, s), allowAboveRoot)
              ELSE NormalizeSegs(Tail(segs), res, allowAboveRoot)
         ELSE NormalizeSegs(Tail(segs), Append(res, s), allowAboveRoot)

\* node:path (posix) normalize.
Normalize(path) ==
    IF path = <<>> THEN <<".">>
    ELSE LET isAbsolute == path[1] = "/"
             trailing   == path[Len(path)] = "/"
             body       == JoinSegs(NormalizeSegs(Split(path), <<>>, ~isAbsolute))
         IN  IF body = <<>>
             THEN IF isAbsolute THEN <<"/">>
                  ELSE IF trailing THEN <<".", "/">> ELSE <<".">>
             ELSE (IF isAbsolute THEN <<"/">> ELSE <<>>)
                  \o body
                  \o (IF trailing THEN <<"/">> ELSE <<>>)

\* node:path (posix) join of two arguments.
join(a, b) ==
    IF a = <<>> /\ b = <<>> THEN <<".">>
    ELSE IF a = <<>> THEN Normalize(b)
    ELSE IF b = <<>> THEN Normalize(a)
    ELSE Normalize(a \o <<"/">> \o b)

\* node:path dirname of a normalized path with at least one separator.
dirname(path) ==
    LET segs == Split(path) IN
    IF Len(segs) <= 1 THEN <<".">>
    ELSE LET d == JoinSegs(SubSeq(segs, 1, Len(segs) - 1)) IN
         IF d = <<>> THEN <<"/">> ELSE d

\* node:path relative(from, to) for a path `to` that lies under `from`.
relative(from, to) ==
    IF to = from THEN <<>>
    ELSE IF StartsWith(to, from \o <<"/">>) THEN Slice(to, Len(from) + 1)
    ELSE to

\* Order of characters (their code units) and of strings, as the object
\* stores sort keys.
CharOrder == <<".", "/", "2", "a", "b", "d", "e", "j", "m", "n", "o", "r", "s", "t", "u">>

CharCode(c) == CHOOSE i \in 1..Len(CharOrder) : CharOrder[i] = c

RECURSIVE StrLess(_, _)
StrLess(s, t) ==
    IF t = <<>> THEN FALSE
    ELSE IF s = <<>> THEN TRUE
    ELSE IF s[1] = t[1] THEN StrLess(Tail(s), Tail(t))
    ELSE CharCode(s[1]) < CharCode(t[1])

RECURSIVE SortStrings(_)
\* The strings of a finite set in ascending order.
SortStrings(S) ==
    IF S = {} THEN <<>>
    ELSE LET m == CHOOSE x \in S : \A y \in S \ {x} : StrLess(x, y)
         IN  <<m>> \o SortStrings(S \ {m})

RECURSIVE Reverse(_)
Reverse(s) == IF s = <<>> THEN <<>> ELSE Append(Reverse(Tail(s)), Head(s))

Range(s) == { s[i] : i \in 1..Len(s) }

----------------------------------------------------------------------------
(* Values *)

\* A byte buffer.  `json` is empty for plain bytes; a buffer holding the JSON
\* text of a metadata record carries the record in `json` (and no bytes), so
\* that JSON.parse succeeds on exactly the buffers JSON.stringify produced.
\* Caller-supplied bytes are taken not to be JSON text.
Bytes(b) == [bytes |-> b, json |-> None]

\* JSON.stringify(metadata, null, 2): the text's length grows with the name.
JsonStringify(m) == [bytes |-> <<>>, json |-> Some(m)]

\* JSON.parse: the record for JSON text, None (a thrown SyntaxError) otherwise.
JsonParse(buf) == buf.json

JsonTextLen(m) == 64 + Len(m.name)

\* Buffer.length / stat.size.
BufLen(buf) == IF buf.json = None THEN Len(buf.bytes) ELSE JsonTextLen(buf.json[1])

\* UTF-8 encoding of a code point below 2048: what Buffer.from(string) and a
\* write stream do with each character of a string chunk.
Utf8(cp) == IF cp < 128 THEN <<cp>> ELSE <<192 + (cp \div 64), 128 + (cp % 64)>>

RECURSIVE Utf8Str(_)
Utf8Str(str) == IF str = <<>> THEN <<>> ELSE Utf8(Head(str)) \o Utf8Str(Tail(str))

\* Upload inputs: a Buffer, a File-like object, a readable stream of chunks.
BufferInput(b)  == [kind |-> "buffer", bytes |-> b,     chunks |-> <<>>]
FileInput(b)    == [kind |-> "file",   bytes |-> b,     chunks |-> <<>>]
StreamInput(cs) == [kind |-> "stream", bytes |-> <<>>,  chunks |-> cs]
\* A chunk is a Buffer (bytes) or a string (code points).
BufChunk(b) == [isBuffer |-> TRUE,  data |-> b]
StrChunk(s) == [isBuffer |-> FALSE, data |-> s]

\* The bytes an input stands for: what the caller means by "the content c".
RECURSIVE ChunkBytes(_)
ChunkBytes(cs) ==
    IF cs = <<>> THEN <<>>
    ELSE (IF Head(cs).isBuffer THEN Head(cs).data ELSE Utf8Str(Head(cs).data))
         \o ChunkBytes(Tail(cs))

ContentOf(file) == IF file.kind = "stream" THEN ChunkBytes(file.chunks) ELSE file.bytes

\* Upload options.
NoOptions == [contentType |-> None, metadata |-> None]
FullOptions == [contentType |-> Some("text/plain"), metadata |-> Some([userId |-> "123"])]

\* The 11 ASCII bytes of 'hello world'.
HelloWorld == <<104, 101, 108, 108, 111, 32, 119, 111, 114, 108, 100>>

\* The uploads callers make: each kind of input, with and without options.
Uploads ==
    { [file |-> BufferInput(HelloWorld), options |-> NoOptions],
      [file |-> FileInput(<<2, 3>>), options |-> FullOptions],
      [file |-> StreamInput(<<BufChunk(<<4>>), StrChunk(<<104, 233>>)>>),
       options |-> NoOptions] }

\* Errors: the message template, and the message of the underlying error when
\* the template embeds it.
Err(text) == [text |-> text, cause |-> None]
ErrCause(text, e) == [text |-> text, cause |-> Some(e.text)]

\* The outcome of an operation: the storage after it, whether it returned or
\* threw, the value returned, the error thrown, the backend calls it issued.
Ret(st, v, log)   == [st |-> st, ok |-> TRUE,  val |-> Some(v), err |-> None,    log |-> log]
Throw(st, e, log) == [st |-> st, ok |-> FALSE, val |-> None,    err |-> Some(e), log |-> log]

----------------------------------------------------------------------------
(* BaseAdapter *)

\* A basePath of <<>> stands for an unset (or empty, equally falsy) basePath.
getFullKey(cfg, key) ==
    IF cfg.basePath # <<>> THEN join(cfg.basePath, key) ELSE key

stripBasePath(cfg, fullKey) ==
    IF cfg.basePath # <<>> /\ StartsWith(fullKey, cfg.basePath)
    THEN Slice(fullKey, Len(cfg.basePath) + 1)
    ELSE fullKey

\* The final path segment; the key itself when that segment is empty.
extractFileName(key) ==
    LET segs == Split(key)
        lastSeg == segs[Len(segs)]
    IN  IF lastSeg = <<>> THEN key ELSE lastSeg

RECURSIVE toBufferChunks(_)
toBufferChunks(cs) ==
    IF cs = <<>> THEN <<>>
    ELSE (IF Head(cs).isBuffer THEN Head(cs).data ELSE Utf8Str(Head(cs).data))
         \o toBufferChunks(Tail(cs))

\* A conversion that stops after the first chunk of a stream.
toBufferFirstChunk(file) ==
    IF file.kind = "buffer" THEN Bytes(file.bytes)
    ELSE IF file.kind = "file" THEN Bytes(file.bytes)
    ELSE Bytes(toBufferChunks(IF file.chunks = <<>> THEN <<>> ELSE <<file.chunks[1]>>))

toBuffer(file) ==
    IF file.kind = "buffer" THEN Bytes(file.bytes)
    ELSE IF file.kind = "file" THEN Bytes(file.bytes)
    ELSE Bytes(toBufferChunks(file.chunks))

\* mime-types lookup(): by the extension of the path's last segment.
lookup(key) ==
    IF EndsWith(key, <<".", "j", "s", "o", "n">>) /\ Len(extractFileName(key)) > 5
    THEN Some("application/json")
    ELSE None

DEFAULT_MIME_TYPE == "application/octet-stream"

OrElse(a, b) == IF a # None THEN a ELSE b

----------------------------------------------------------------------------
(* FsAdapter *)

rootDir == <<"/", "r">>
METADATA_FILE_EXTENSION == <<".", "m", "e", "t", "a", ".", "j", "s", "o", "n">>

getFilePath(cfg, key) == join(rootDir, getFullKey(cfg, key))

getMetadataPath(cfg, key) == getFilePath(cfg, key) \o METADATA_FILE_EXTENSION

\* The file system is a function from the paths that exist to their content.
Exists(fs, p) == p \in DOMAIN fs
WriteFile(fs, p, buf) == (p :> buf) @@ fs
Unlink(fs, p) == [q \in DOMAIN fs \ {p} |-> fs[q]]

\* A backend call fails when its label is among the faults forced on the
\* operation (permission denied, I/O error), or by itself when its target
\* is missing.  The log of an operation lists its backend calls in order.
ENOENT == Err("ENOENT: no such file or directory")
EACCES == Err("EACCES: permission denied")

Call(name, target, ok) == [call |-> name, target |-> target, ok |-> ok]

\* The sub-operations a compound operation (move) ran, in order, and whether
\* each did what it was called for.
Phase(name, ok) == [name |-> name, ok |-> ok]
WithPhases(r, phases) == [phase |-> phases] @@ r

\* FileMetadata built from file attributes.
StatMetadata(fs, filePath, key) ==
    [name |-> extractFileName(key),
     mimeType |-> OrElse(lookup(key), Some(DEFAULT_MIME_TYPE))[1],
     sizeInBytes |-> BufLen(fs[filePath]),
     customMetadata |-> None]

\* A getMetadata that answers from the sidecar alone.
FsGetMetadataSidecarOnly(fs, cfg, key, F) ==
    LET At(metaPath, filePath) ==
            LET readOk == Exists(fs, metaPath) /\ "readFile.meta" \notin F
                parsed == IF readOk THEN JsonParse(fs[metaPath]) ELSE None
            IN  Ret(fs, parsed, <<Call("readFile", metaPath, readOk)>>)
    IN  At(getMetadataPath(cfg, key), getFilePath(cfg, key))

\* getMetadata(key): the parsed sidecar, else a record built from the data
\* file's attributes, else null.  It never throws.  The value is optional.
FsGetMetadata(fs, cfg, key, F) ==
    LET At(metaPath, filePath) ==
            LET readOk == Exists(fs, metaPath) /\ "readFile.meta" \notin F
                parsed == IF readOk THEN JsonParse(fs[metaPath]) ELSE None
                statOk == Exists(fs, filePath) /\ "stat" \notin F
                log1 == <<Call("readFile", metaPath, readOk)>>
            IN  IF parsed # None
                THEN Ret(fs, parsed, log1)
                ELSE Ret(fs, IF statOk THEN Some(StatMetadata(fs, filePath, key)) ELSE None,
                         Append(log1, Call("stat", filePath, statOk)))
    IN  At(getMetadataPath(cfg, key), getFilePath(cfg, key))

\* pipeline(stream, createWriteStream(filePath)): the chunks in order, strings
\* encoded as UTF-8.
RECURSIVE PipelineBytes(_)
PipelineBytes(cs) ==
    IF cs = <<>> THEN <<>>
    ELSE (IF Head(cs).isBuffer THEN Head(cs).data ELSE Utf8Str(Head(cs).data))
         \o PipelineBytes(Tail(cs))

FsUpload(fs, cfg, key, file, options, F) ==
    LET At(filePath, metadataPath) ==
            LET buffer == IF file.kind = "buffer" THEN Bytes(file.bytes)
                          ELSE IF file.kind = "file" THEN toBuffer(file)
                          ELSE Bytes(PipelineBytes(file.chunks))
                fs1 == WriteFile(fs, filePath, buffer)
                metadata ==
                    [name |-> extractFileName(key),
                     mimeType |-> OrElse(options.contentType,
                                         OrElse(lookup(key), Some(DEFAULT_MIME_TYPE)))[1],
                     sizeInBytes |-> BufLen(fs1[filePath]),
                     customMetadata |-> options.metadata]
                c1(ok) == <<Call("mkdir", dirname(filePath), ok)>>
                c2(ok) == Append(c1(TRUE), Call("writeFile", filePath, ok))
                c3(ok) == Append(c2(TRUE), Call("stat", filePath, ok))
                c4(ok) == Append(c3(TRUE), Call("writeFile", metadataPath, ok))
            IN  IF "mkdir" \in F THEN Throw(fs, EACCES, c1(FALSE))
                ELSE IF "writeFile" \in F THEN Throw(fs, EACCES, c2(FALSE))
                ELSE IF "stat" \in F THEN Throw(fs1, EACCES, c3(FALSE))
                ELSE IF "writeFile.meta" \in F THEN Throw(fs1, EACCES, c4(FALSE))
                ELSE Ret(WriteFile(fs1, metadataPath, JsonStringify(metadata)), metadata,
                         c4(TRUE))
    IN  At(getFilePath(cfg, key), getMetadataPath(cfg, key))

\* upload() suspends at each of its awaits: mkdir, the write of the data file,
\* stat, the write of the sidecar.  What it writes to the data file:
UploadBuffer(file) ==
    IF file.kind = "buffer" THEN Bytes(file.bytes)
    ELSE IF file.kind = "file" THEN toBuffer(file)
    ELSE Bytes(PipelineBytes(file.chunks))

\* The record upload() builds after stat: size is what stat answered.
UploadMetadata(key, options, size) ==
    [name |-> extractFileName(key),
     mimeType |-> OrElse(options.contentType, OrElse(lookup(key), Some(DEFAULT_MIME_TYPE)))[1],
     sizeInBytes |-> size,
     customMetadata |-> options.metadata]

\* A read that takes end as the first byte not to return.
ReadRangeEndExclusive(buf, startByte, endByte) ==
    Bytes(SubSeq(buf.bytes, startByte + 1,
                 IF endByte < Len(buf.bytes) THEN endByte ELSE Len(buf.bytes)))

\* createReadStream(filePath, {start, end}): the bytes start..end, both
\* inclusive, cut at the end of the file.
ReadRange(buf, startByte, endByte) ==
    Bytes(SubSeq(buf.bytes, startByte + 1,
                 IF endByte + 1 < Len(buf.bytes) THEN endByte + 1 ELSE Len(buf.bytes)))

\* download(key, options): range is None or Some([startByte, endByte]).
FsDownload(fs, cfg, key, range, F) ==
    LET At(filePath, metadataPath) ==
            LET readCall == IF range # None THEN "createReadStream" ELSE "readFile"
                readOk == Exists(fs, filePath) /\ "readFile" \notin F
                cause == IF Exists(fs, filePath) THEN EACCES ELSE ENOENT
                content == IF range # None
                           THEN ReadRange(fs[filePath], range[1].startByte, range[1].endByte)
                           ELSE fs[filePath]
                metaOk == Exists(fs, metadataPath) /\ "readFile.meta" \notin F
                parsed == IF metaOk THEN JsonParse(fs[metadataPath]) ELSE None
                c1 == <<Call(readCall, filePath, readOk)>>
                c2 == Append(c1, Call("readFile", metadataPath, metaOk))
                c3(ok) == Append(c2, Call("stat", filePath, ok))
            IN  IF ~readOk
                THEN Throw(fs, ErrCause("Failed to read file at key {key}: {cause}", cause), c1)
                ELSE IF parsed # None
                THEN Ret(fs, [metadata |-> parsed[1], content |-> content], c2)
                ELSE IF "stat" \in F
                THEN Throw(fs,
                           ErrCause("Failed to retrieve metadata for file at key {key}: {cause}",
                                    EACCES),
                           c3(FALSE))
                ELSE Ret(fs, [metadata |-> StatMetadata(fs, filePath, key), content |-> content],
                         c3(TRUE))
    IN  At(getFilePath(cfg, key), getMetadataPath(cfg, key))

\* delete(key): true when the data file was unlinked; every failure is false.
FsDelete(fs, cfg, key, F) ==
    LET At(filePath, metadataPath) ==
            LET unlinkOk == Exists(fs, filePath) /\ "unlink" \notin F
                fs1 == Unlink(fs, filePath)
                metaOk == Exists(fs1, metadataPath) /\ "unlink.meta" \notin F
                c1 == <<Call("unlink", filePath, unlinkOk)>>
                c2 == Append(c1, Call("unlink", metadataPath, metaOk))
            IN  IF ~unlinkOk THEN Ret(fs, FALSE, c1)
                ELSE IF ~metaOk THEN Ret(fs1, TRUE, c2)
                ELSE Ret(Unlink(fs1, metadataPath), TRUE, c2)
    IN  At(getFilePath(cfg, key), getMetadataPath(cfg, key))

\* exists(key): fs.access on the data file.
FsExists(fs, cfg, key, F) ==
    LET At(filePath) ==
            LET ok == Exists(fs, filePath) /\ "access" \notin F
            IN  Ret(fs, ok, <<Call("access", filePath, ok)>>)
    IN  At(getFilePath(cfg, key))

\* fs.copyFile(src, dest): overwrites dest; copying a file onto itself
\* changes nothing.
CopyFile(fs, src, dest) == IF src = dest THEN fs ELSE WriteFile(fs, dest, fs[src])

FsCopy(fs, cfg, sourceKey, destinationKey, F) ==
    LET At(sourcePath, destPath, sourceMetaPath, destMetaPath) ==
            LET copyOk == Exists(fs, sourcePath) /\ "copyFile" \notin F
                fs1 == CopyFile(fs, sourcePath, destPath)
                metaOk == Exists(fs1, sourceMetaPath) /\ "copyFile.meta" \notin F
                c1(ok) == <<Call("mkdir", dirname(destPath), ok)>>
                c2 == Append(c1(TRUE), Call("copyFile", destPath, copyOk))
                c3 == Append(c2, Call("copyFile", destMetaPath, metaOk))
                Answer(fs2, metadata) ==
                    IF metadata.val[1] = None
                    THEN Throw(fs2, Err("Failed to copy file"), c3 \o metadata.log)
                    ELSE Ret(fs2, metadata.val[1][1], c3 \o metadata.log)
                Copied(fs2) == Answer(fs2, FsGetMetadata(fs2, cfg, destinationKey, F))
            IN  IF "mkdir" \in F THEN Throw(fs, EACCES, c1(FALSE))
                ELSE IF ~copyOk
                THEN Throw(fs, IF Exists(fs, sourcePath) THEN EACCES ELSE ENOENT, c2)
                ELSE Copied(IF metaOk THEN CopyFile(fs1, sourceMetaPath, destMetaPath)
                            ELSE fs1)
    IN  At(getFilePath(cfg, sourceKey), getFilePath(cfg, destinationKey),
           getMetadataPath(cfg, sourceKey), getMetadataPath(cfg, destinationKey))

\* move(sourceKey, destinationKey): copy, then delete whose result is dropped.
FsMove(fs, cfg, sourceKey, destinationKey, F) ==
    LET Deleted(copied, deleted) ==
            WithPhases(Ret(deleted.st, copied.val[1], copied.log \o deleted.log),
                       <<Phase("copy", TRUE), Phase("delete", deleted.val[1])>>)
        Copied(copied) ==
            IF ~copied.ok THEN WithPhases(copied, <<Phase("copy", FALSE)>>)
            ELSE Deleted(copied, FsDelete(copied.st, cfg, sourceKey, F))
    IN  Copied(FsCopy(fs, cfg, sourceKey, destinationKey, F))

\* A public URL built from the key as given, without the basePath.
FsGetSignedUrlOfKey(fs, cfg, key, options) ==
    IF cfg.baseUrl # <<>>
    THEN Ret(fs, cfg.baseUrl \o <<"/">> \o key, <<>>)
    ELSE Throw(fs, Err("baseUrl not configured for FsAdapter"), <<>>)

\* getSignedUrl(key, options): the public URL under baseUrl; a baseUrl of <<>>
\* stands for an unset (or empty, equally falsy) baseUrl.  No backend call.
FsGetSignedUrl(fs, cfg, key, options) ==
    IF cfg.baseUrl # <<>>
    THEN Ret(fs, cfg.baseUrl \o <<"/">> \o getFullKey(cfg, key), <<>>)
    ELSE Throw(fs, Err("baseUrl not configured for FsAdapter"), <<>>)

\* An adapter that answers a signed-upload request with its public URL.
FsGetSignedUrlUploadAsPublicUrl(fs, cfg, key, options) ==
    Ret(fs, [url |-> cfg.baseUrl \o <<"/">> \o getFullKey(cfg, key), headers |-> None], <<>>)

FsGetSignedUrlUpload(fs, cfg, key, options) ==
    Throw(fs, Err("Signed upload URLs not supported for filesystem adapter"), <<>>)

DEFAULT_LIST_LIMIT == 1000

\* A directory path without its trailing separator.
DirOf(dir) ==
    IF Len(dir) > 1 /\ dir[Len(dir)] = "/" THEN SubSeq(dir, 1, Len(dir) - 1) ELSE dir

\* fs.readdir(dir, {withFileTypes: true}): the names directly under dir.  The
\* order is the operating system's: ascending or descending by name here.
EntryNames(fs, dir) ==
    { Split(relative(DirOf(dir), p))[1] :
        p \in { q \in DOMAIN fs : StartsWith(q, DirOf(dir) \o <<"/">>) } }

readdir(fs, dir, ord) ==
    IF ord = "asc" THEN SortStrings(EntryNames(fs, dir))
    ELSE Reverse(SortStrings(EntryNames(fs, dir)))

isDirectory(fs, fullPath) == \E q \in DOMAIN fs : StartsWith(q, fullPath \o <<"/">>)

isDataFile(fileName) == ~EndsWith(fileName, METADATA_FILE_EXTENSION)

getFileMetadataForListing(fs, cfg, fullPath, F) ==
    LET relativePath == relative(rootDir, fullPath)
        key == stripBasePath(cfg, relativePath)
    IN  FsGetMetadata(fs, cfg, key, F)

RECURSIVE walkDirectory(_, _, _, _, _, _, _)
RECURSIVE walkEntries(_, _, _, _, _, _, _, _)

\* The accumulator of a walk: the records collected, the object each stands
\* for (its path relative to rootDir; not a field of FileMetadata), the calls.
walkEntries(fs, cfg, dir, entries, acc, limit, F, ord) ==
    IF entries = <<>> \/ Len(acc.files) >= limit THEN acc
    ELSE LET Collected(fullPath, metadata) ==
                 IF metadata.val[1] # None
                 THEN [files |-> Append(acc.files, metadata.val[1][1]),
                       ids |-> Append(acc.ids, relative(rootDir, fullPath)),
                       log |-> acc.log \o metadata.log]
                 ELSE [acc EXCEPT !.log = @ \o metadata.log]
             Entry(fullPath) ==
                 IF isDirectory(fs, fullPath)
                 THEN walkDirectory(fs, cfg, fullPath, acc, limit, F, ord)
                 ELSE IF isDataFile(Head(entries))
                 THEN Collected(fullPath, getFileMetadataForListing(fs, cfg, fullPath, F))
                 ELSE acc
         IN  walkEntries(fs, cfg, dir, Tail(entries), Entry(join(dir, Head(entries))),
                         limit, F, ord)

walkDirectory(fs, cfg, dir, acc, limit, F, ord) ==
    LET readOk == EntryNames(fs, dir) # {} /\ "readdir" \notin F
        acc1 == [acc EXCEPT !.log = Append(@, Call("readdir", dir, readOk))]
    IN  IF ~readOk THEN acc1
        ELSE walkEntries(fs, cfg, dir, readdir(fs, dir, ord), acc1, limit, F, ord)

collectFiles(fs, cfg, directory, limit, F, ord) ==
    walkDirectory(fs, cfg, directory, [files |-> <<>>, ids |-> <<>>, log |-> <<>>],
                  limit, F, ord)

getSearchDirectory(cfg, prefix) ==
    IF prefix # <<>>
    THEN join(rootDir, getFullKey(cfg, prefix))
    ELSE join(rootDir, cfg.basePath)

\* A listing that walks the whole tree whatever limit was asked for.
FsListWholeTree(fs, cfg, prefix, limitOpt, cursor, F, ord) ==
    LET limit == IF limitOpt = None THEN DEFAULT_LIST_LIMIT ELSE limitOpt[1]
        Listed(walked) ==
            Ret(fs,
                [files |-> walked.files,
                 ids |-> walked.ids,
                 nextCursor |-> None,
                 hasMore |-> limit > 0 /\ Len(walked.files) >= limit],
                walked.log)
    IN  Listed(collectFiles(fs, cfg, getSearchDirectory(cfg, prefix), DEFAULT_LIST_LIMIT,
                            F, ord))

\* list(options): options.limit is None (the default applies) or Some(n); the
\* cursor is not read and no nextCursor is returned.
FsList(fs, cfg, prefix, limitOpt, cursor, F, ord) ==
    LET limit == IF limitOpt = None THEN DEFAULT_LIST_LIMIT ELSE limitOpt[1]
        Listed(walked) ==
            Ret(fs,
                [files |-> walked.files,
                 ids |-> walked.ids,
                 nextCursor |-> None,
                 hasMore |-> limit > 0 /\ Len(walked.files) >= limit],
                walked.log)
    IN  Listed(collectFiles(fs, cfg, getSearchDirectory(cfg, prefix), limit, F, ord))

----------------------------------------------------------------------------
(* The object stores behind S3Adapter and VercelBlobAdapter *)

\* The bucket is a function from the keys that hold an object to the object:
\* its body, its content type and its user metadata.
PutObject(objs, k, body, contentType, metadata) ==
    (k :> [body |-> body, contentType |-> contentType, metadata |-> metadata]) @@ objs

RemoveObject(objs, k) == [q \in DOMAIN objs \ {k} |-> objs[q]]

\* A listing request: the keys with the prefix in ascending order, those
\* after the continuation token, at most maxKeys of them; truncated when
\* keys remain, and then the token to continue from.
ListPage(objs, prefix, maxKeys, cursor) ==
    LET matching == SortStrings({ k \in DOMAIN objs : StartsWith(k, prefix) })
        after == IF cursor = None THEN matching
                 ELSE SelectSeq(matching, LAMBDA k : StrLess(cursor[1], k))
        n == IF Len(after) < maxKeys THEN Len(after) ELSE maxKeys
        page == SubSeq(after, 1, n)
        truncated == n > 0 /\ n < Len(after)
    IN  [keys |-> page,
         truncated |-> truncated,
         next |-> IF truncated THEN Some(page[n]) ELSE None]

AccessDenied == Err("AccessDenied")
NoSuchKey == Err("NoSuchKey")
InvalidRequest == Err("InvalidRequest: copy of an object onto itself")

----------------------------------------------------------------------------
(* S3Adapter *)

EmptyObject == [x \in {} |-> x]

\* customMetadata of a response: the JSON stored under 'x-amz-meta-custom'
\* when present, else the response's (empty) Metadata map.
S3CustomMetadata(obj) == IF obj.metadata # None THEN obj.metadata ELSE Some(EmptyObject)

S3Upload(objs, cfg, key, file, options, F) ==
    LET At(fullKey, buffer) ==
            LET contentType == OrElse(options.contentType,
                                      OrElse(lookup(key), Some(DEFAULT_MIME_TYPE)))[1]
                sent == "PutObject" \notin F
                log == <<Call("PutObject", fullKey, sent)>>
            IN  IF ~sent THEN Throw(objs, AccessDenied, log)
                ELSE Ret(PutObject(objs, fullKey, buffer, contentType, options.metadata),
                         [name |-> extractFileName(key),
                          mimeType |-> contentType,
                          sizeInBytes |-> BufLen(buffer),
                          customMetadata |-> options.metadata],
                         log)
    IN  At(getFullKey(cfg, key), toBuffer(file))

S3Download(objs, cfg, key, range, F) ==
    LET At(fullKey) ==
            LET found == fullKey \in DOMAIN objs
                sent == found /\ "GetObject" \notin F
                obj == objs[fullKey]
                content == IF range # None
                           THEN ReadRange(obj.body, range[1].startByte, range[1].endByte)
                           ELSE obj.body
                log == <<Call("GetObject", fullKey, sent)>>
            IN  IF ~sent THEN Throw(objs, IF found THEN AccessDenied ELSE NoSuchKey, log)
                ELSE Ret(objs,
                         [metadata |-> [name |-> extractFileName(key),
                                        mimeType |-> obj.contentType,
                                        sizeInBytes |-> BufLen(content),
                                        customMetadata |-> S3CustomMetadata(obj)],
                          content |-> content],
                         log)
    IN  At(getFullKey(cfg, key))

\* getMetadata(key): null for NotFound / 404, any other error is rethrown.
S3GetMetadata(objs, cfg, key, F) ==
    LET At(fullKey) ==
            LET found == fullKey \in DOMAIN objs
                denied == "HeadObject" \in F
                obj == objs[fullKey]
                log == <<Call("HeadObject", fullKey, found /\ ~denied)>>
            IN  IF denied THEN Throw(objs, AccessDenied, log)
                ELSE IF ~found THEN Ret(objs, None, log)
                ELSE Ret(objs,
                         Some([name |-> extractFileName(key),
                               mimeType |-> obj.contentType,
                               sizeInBytes |-> BufLen(obj.body),
                               customMetadata |-> S3CustomMetadata(obj)]),
                         log)
    IN  At(getFullKey(cfg, key))

\* delete(key): true when DeleteObject succeeds (it does for a key that holds
\* no object, unless the store answers 404), false for 404, other errors are
\* rethrown.
S3Delete(objs, cfg, key, F) ==
    LET At(fullKey) ==
            LET found == fullKey \in DOMAIN objs
                denied == "DeleteObject" \in F
                notFound == ~found /\ "DeleteObject.404" \in F
                log == <<Call("DeleteObject", fullKey, ~denied /\ ~notFound)>>
            IN  IF denied THEN Throw(objs, AccessDenied, log)
                ELSE IF notFound THEN Ret(objs, FALSE, log)
                ELSE Ret(RemoveObject(objs, fullKey), TRUE, log)
    IN  At(getFullKey(cfg, key))

S3Exists(objs, cfg, key, F) ==
    LET Answer(metadata) ==
            IF ~metadata.ok THEN metadata
            ELSE Ret(objs, metadata.val[1] # None, metadata.log)
    IN  Answer(S3GetMetadata(objs, cfg, key, F))

S3List(objs, cfg, prefix, limitOpt, cursor, F) ==
    LET limit == IF limitOpt = None THEN DEFAULT_LIST_LIMIT ELSE limitOpt[1]
        sent == "ListObjectsV2" \notin F
        Listed(fullPrefix, response) ==
            IF ~sent THEN Throw(objs, AccessDenied, <<Call("ListObjectsV2", fullPrefix, sent)>>)
            ELSE Ret(objs,
                     [files |-> [i \in 1..Len(response.keys) |->
                                   [name |-> extractFileName(
                                                 stripBasePath(cfg, response.keys[i])),
                                    mimeType |-> OrElse(lookup(response.keys[i]),
                                                        Some(DEFAULT_MIME_TYPE))[1],
                                    sizeInBytes |-> BufLen(objs[response.keys[i]].body),
                                    customMetadata |-> None]],
                      ids |-> response.keys,
                      nextCursor |-> response.next,
                      hasMore |-> response.truncated],
                     <<Call("ListObjectsV2", fullPrefix, sent)>>)
        At(fullPrefix) == Listed(fullPrefix, ListPage(objs, fullPrefix, limit, cursor))
    IN  At(getFullKey(cfg, prefix))

S3Copy(objs, cfg, sourceKey, destinationKey, F) ==
    LET At(fullSourceKey, fullDestKey) ==
            LET found == fullSourceKey \in DOMAIN objs
                sent == found /\ fullSourceKey # fullDestKey /\ "CopyObject" \notin F
                source == objs[fullSourceKey]
                c1 == <<Call("CopyObject", fullDestKey, sent)>>
                Answer(objs1, metadata) ==
                    IF ~metadata.ok THEN Throw(objs1, metadata.err[1], c1 \o metadata.log)
                    ELSE IF metadata.val[1] = None
                    THEN Throw(objs1,
                               Err("Failed to copy file from {sourceKey} to {destinationKey}"),
                               c1 \o metadata.log)
                    ELSE Ret(objs1, metadata.val[1][1], c1 \o metadata.log)
                Copied(objs1) == Answer(objs1, S3GetMetadata(objs1, cfg, destinationKey, F))
            IN  IF ~sent
                THEN Throw(objs,
                           IF ~found THEN NoSuchKey
                           ELSE IF "CopyObject" \in F THEN AccessDenied ELSE InvalidRequest,
                           c1)
                ELSE Copied(PutObject(objs, fullDestKey, source.body, source.contentType,
                                      source.metadata))
    IN  At(getFullKey(cfg, sourceKey), getFullKey(cfg, destinationKey))

SIGNED_URL_EXPIRATION == 3600

\* A presigned URL: the command and key it signs and the seconds it is valid
\* for (an expiresIn of 0 is falsy: the default applies).  Signing is local.
Presigned(command, fullKey, options) ==
    [command |-> command, key |-> fullKey,
     expiresIn |-> IF options.expiresIn # 0 THEN options.expiresIn ELSE SIGNED_URL_EXPIRATION]

S3GetSignedUrl(objs, cfg, key, options) ==
    Ret(objs, Presigned("GetObject", getFullKey(cfg, key), options), <<>>)

S3GetSignedUrlUpload(objs, cfg, key, options) ==
    Ret(objs,
        [url |-> Presigned("PutObject", getFullKey(cfg, key), options),
         headers |-> IF options.contentType # None
                     THEN Some([ContentType |-> options.contentType[1]])
                     ELSE None],
        <<>>)

\* The faults of the rollback delete are those labelled "rollback." + label.
RollbackFaults(F, label) == IF ("rollback." \o label) \in F THEN {label} ELSE {}

\* move: copy, delete the source; when that delete throws, delete the
\* destination (errors ignored) and throw the delete's message.
S3Move(objs, cfg, sourceKey, destinationKey, F) ==
    LET RolledBack(copied, deleted, rollback) ==
            WithPhases(
                Throw(rollback.st,
                      ErrCause("Failed to move file from {sourceKey} to {destinationKey}: {cause}",
                               deleted.err[1]),
                      copied.log \o deleted.log \o rollback.log),
                <<Phase("copy", TRUE), Phase("delete", FALSE),
                  Phase("rollback", rollback.ok /\ rollback.val[1])>>)
        Deleted(copied, deleted) ==
            IF deleted.ok
            THEN WithPhases(Ret(deleted.st, copied.val[1], copied.log \o deleted.log),
                            <<Phase("copy", TRUE), Phase("delete", deleted.val[1])>>)
            ELSE RolledBack(copied, deleted,
                            S3Delete(copied.st, cfg, destinationKey,
                                     RollbackFaults(F, "DeleteObject")))
        Copied(copied) ==
            IF ~copied.ok THEN WithPhases(copied, <<Phase("copy", FALSE)>>)
            ELSE Deleted(copied, S3Delete(copied.st, cfg, sourceKey, F))
    IN  Copied(S3Copy(objs, cfg, sourceKey, destinationKey, F))

----------------------------------------------------------------------------
(* VercelBlobAdapter *)

BlobNotFound == Err("Vercel Blob: The requested blob does not exist")
BlobAccessError == Err("Vercel Blob: Access denied, please provide a valid token for this resource")

BlobUrl(fullKey) == <<"u", "r", "l", "/">> \o fullKey

VercelUpload(objs, cfg, key, file, options, F) ==
    LET At(fullKey, buffer) ==
            LET stored == OrElse(options.contentType,
                                 OrElse(lookup(fullKey), Some(DEFAULT_MIME_TYPE)))[1]
                sent == "put" \notin F
                log == <<Call("put", fullKey, sent)>>
            IN  IF ~sent THEN Throw(objs, BlobAccessError, log)
                ELSE Ret(PutObject(objs, fullKey, buffer, stored, None),
                         [name |-> extractFileName(key),
                          mimeType |-> OrElse(options.contentType, Some(DEFAULT_MIME_TYPE))[1],
                          sizeInBytes |-> BufLen(buffer),
                          customMetadata |->
                              Some([metadata |-> options.metadata,
                                    url |-> BlobUrl(fullKey),
                                    pathname |-> fullKey])],
                         log)
    IN  At(getFullKey(cfg, key), toBuffer(file))

\* getMetadata(key): every error of head(), not found or not, gives null.
VercelGetMetadata(objs, cfg, key, F) ==
    LET At(fullKey) ==
            LET sent == fullKey \in DOMAIN objs /\ "head" \notin F
                blob == objs[fullKey]
                log == <<Call("head", fullKey, sent)>>
            IN  IF ~sent THEN Ret(objs, None, log)
                ELSE Ret(objs,
                         Some([name |-> extractFileName(key),
                               mimeType |-> blob.contentType,
                               sizeInBytes |-> BufLen(blob.body),
                               customMetadata |-> None]),
                         log)
    IN  At(getFullKey(cfg, key))

\* download(key, options): a range is refused before any backend call.
VercelDownload(objs, cfg, key, range, F) ==
    LET At(fullKey, metadata) ==
            LET found == fullKey \in DOMAIN objs
                headOk == found /\ "head.url" \notin F
                fetchOk == "fetch" \notin F
                c2 == Append(metadata.log, Call("head", fullKey, headOk))
                c3 == Append(c2, Call("fetch", BlobUrl(fullKey), fetchOk))
            IN  IF range # None
                THEN Throw(objs, Err("Range downloads are not supported by Vercel Blob."), <<>>)
                ELSE IF metadata.val[1] = None
                THEN Throw(objs, Err("File not found: {key}"), metadata.log)
                ELSE IF ~headOk
                THEN Throw(objs, IF found THEN BlobAccessError ELSE BlobNotFound, c2)
                ELSE IF ~fetchOk THEN Throw(objs, Err("fetch failed"), c3)
                ELSE Ret(objs,
                         [metadata |-> metadata.val[1][1], content |-> objs[fullKey].body],
                         c3)
    IN  At(getFullKey(cfg, key), VercelGetMetadata(objs, cfg, key, F))

\* delete(key): true when del() resolves (it does for a missing blob), false
\* for every error.
VercelDelete(objs, cfg, key, F) ==
    LET At(fullKey) ==
            LET sent == "del" \notin F
                log == <<Call("del", fullKey, sent)>>
            IN  IF ~sent THEN Ret(objs, FALSE, log)
                ELSE Ret(RemoveObject(objs, fullKey), TRUE, log)
    IN  At(getFullKey(cfg, key))

VercelExists(objs, cfg, key, F) ==
    LET Answer(metadata) == Ret(objs, metadata.val[1] # None, metadata.log)
    IN  Answer(VercelGetMetadata(objs, cfg, key, F))

VercelList(objs, cfg, prefix, limitOpt, cursor, F) ==
    LET limit == IF limitOpt = None THEN DEFAULT_LIST_LIMIT ELSE limitOpt[1]
        sent == "list" \notin F
        Listed(fullPrefix, result) ==
            IF ~sent THEN Throw(objs, BlobAccessError, <<Call("list", fullPrefix, sent)>>)
            ELSE Ret(objs,
                     [files |-> [i \in 1..Len(result.keys) |->
                                   [name |-> extractFileName(result.keys[i]),
                                    mimeType |-> OrElse(lookup(result.keys[i]),
                                                        Some(DEFAULT_MIME_TYPE))[1],
                                    sizeInBytes |-> BufLen(objs[result.keys[i]].body),
                                    customMetadata |-> None]],
                      ids |-> result.keys,
                      nextCursor |-> result.next,
                      hasMore |-> result.truncated],
                     <<Call("list", fullPrefix, sent)>>)
        At(fullPrefix) == Listed(fullPrefix, ListPage(objs, fullPrefix, limit, cursor))
    IN  At(getFullKey(cfg, prefix))

VercelCopy(objs, cfg, sourceKey, destinationKey, F) ==
    LET At(fullSourceKey, fullDestKey) ==
            LET found == fullSourceKey \in DOMAIN objs
                sent == found /\ "copy" \notin F
                source == objs[fullSourceKey]
                c1 == <<Call("copy", fullDestKey, sent)>>
                Answer(objs1, metadata) ==
                    IF metadata.val[1] = None
                    THEN Throw(objs1,
                               Err("Failed to copy file from {sourceKey} to {destinationKey}"),
                               c1 \o metadata.log)
                    ELSE Ret(objs1, metadata.val[1][1], c1 \o metadata.log)
                Copied(objs1) ==
                    Answer(objs1, VercelGetMetadata(objs1, cfg, destinationKey, F))
            IN  IF ~sent
                THEN Throw(objs, IF found THEN BlobAccessError ELSE BlobNotFound, c1)
                ELSE Copied(PutObject(objs, fullDestKey, source.body, source.contentType,
                                      None))
    IN  At(getFullKey(cfg, sourceKey), getFullKey(cfg, destinationKey))

\* getSignedUrl(key): the url of the blob head() finds; its errors propagate.
VercelGetSignedUrl(objs, cfg, key, options, F) ==
    LET At(fullKey) ==
            LET found == fullKey \in DOMAIN objs
                sent == found /\ "head" \notin F
                log == <<Call("head", fullKey, sent)>>
            IN  IF ~sent THEN Throw(objs, IF found THEN BlobAccessError ELSE BlobNotFound, log)
                ELSE Ret(objs, BlobUrl(fullKey), log)
    IN  At(getFullKey(cfg, key))

VercelGetSignedUrlUpload(objs, cfg, key, options) ==
    Throw(objs, Err("Signed upload URLs are not supported for Vercel Blob adapter."), <<>>)

\* move: copy, delete the source; when that delete returns false, delete the
\* destination (result ignored) and throw.
VercelMove(objs, cfg, sourceKey, destinationKey, F) ==
    LET RolledBack(copied, deleted, rollback) ==
            WithPhases(
                Throw(rollback.st,
                      Err("Failed to delete source file {sourceKey} after copying to {destinationKey}"),
                      copied.log \o deleted.log \o rollback.log),
                <<Phase("copy", TRUE), Phase("delete", FALSE),
                  Phase("rollback", rollback.val[1])>>)
        Deleted(copied, deleted) ==
            IF deleted.val[1]
            THEN WithPhases(Ret(deleted.st, copied.val[1], copied.log \o deleted.log),
                            <<Phase("copy", TRUE), Phase("delete", TRUE)>>)
            ELSE RolledBack(copied, deleted,
                            VercelDelete(copied.st, cfg, destinationKey,
                                         RollbackFaults(F, "del")))
        Copied(copied) ==
            IF ~copied.ok THEN WithPhases(copied, <<Phase("copy", FALSE)>>)
            ELSE Deleted(copied, VercelDelete(copied.st, cfg, sourceKey, F))
    IN  Copied(VercelCopy(objs, cfg, sourceKey, destinationKey, F))

----------------------------------------------------------------------------
(* What the failure messages of move tell the caller *)

\* The message embeds the message of the failure that caused it.
StatesCause(e) == e.cause # None

\* For each message move throws after a failed delete of the source: whether
\* its text tells the caller that a duplicate (source and destination both
\* present) may exist.
TellsDuplicate ==
    ("Failed to move file from {sourceKey} to {destinationKey}: {cause}" :> FALSE)
    @@ ("Failed to delete source file {sourceKey} after copying to {destinationKey}" :> FALSE)

MentionsDuplicate(e) == e.text \in DOMAIN TellsDuplicate /\ TellsDuplicate[e.text]

----------------------------------------------------------------------------
(* The adapter instance and its callers *)

Adapters == {"fs", "s3", "vercel"}

\* Configurations: no basePath, and a one-segment basePath.
BasePaths == { <<>>, <<"u">> }

\* 'https://example.test'
ExampleUrl ==
    <<"h", "t", "t", "p", "s", ":", "/", "/", "e", "x", "a", "m", "p", "l", "e", ".",
      "t", "e", "s", "t">>

\* FsAdapterConfig.baseUrl: unset, or a public base URL.  The other adapters'
\* configurations have no baseUrl.
BaseUrls(a) == IF a = "fs" THEN { <<>>, ExampleUrl } ELSE { <<>> }

\* SignedUrlOptions.
SignedUrlOptions ==
    { [expiresIn |-> 60, contentType |-> None],
      [expiresIn |-> 0, contentType |-> Some("text/plain")] }

\* The keys callers use: a top-level key, the key named like its sidecar, and
\* a key in a directory.  No key is a directory of another.
KeyA == <<"a">>
KeyAMeta == KeyA \o METADATA_FILE_EXTENSION
KeyDB == <<"d", "/", "b">>
Keys == { KeyA, KeyAMeta, KeyDB }

\* The prefixes callers list: everything, and the directory "d".
Prefixes == { <<>>, <<"d">> }

Limits == 0..MaxLimit

\* The labels of the backend calls of each operation, per adapter.
FaultLabels(op) ==
    IF adapter = "fs" THEN
        CASE op = "upload"      -> {"mkdir", "writeFile", "stat", "writeFile.meta"}
          [] op = "download"    -> {"readFile", "readFile.meta", "stat"}
          [] op = "getMetadata" -> {"readFile.meta", "stat"}
          [] op = "delete"      -> {"unlink", "unlink.meta"}
          [] op = "exists"      -> {"access"}
          [] op = "list"        -> {"readdir", "readFile.meta", "stat"}
          [] op = "copy"        -> {"mkdir", "copyFile", "copyFile.meta", "readFile.meta", "stat"}
          [] op = "move"        -> {"mkdir", "copyFile", "copyFile.meta", "readFile.meta", "stat",
                                    "unlink", "unlink.meta"}
          [] op = "getSignedUrl" -> {}
    ELSE IF adapter = "s3" THEN
        CASE op = "upload"      -> {"PutObject"}
          [] op = "download"    -> {"GetObject"}
          [] op = "getMetadata" -> {"HeadObject"}
          [] op = "delete"      -> {"DeleteObject", "DeleteObject.404"}
          [] op = "exists"      -> {"HeadObject"}
          [] op = "list"        -> {"ListObjectsV2"}
          [] op = "copy"        -> {"CopyObject", "HeadObject"}
          [] op = "move"        -> {"CopyObject", "HeadObject", "DeleteObject",
                                    "rollback.DeleteObject"}
          [] op = "getSignedUrl" -> {}
    ELSE
        CASE op = "upload"      -> {"put"}
          [] op = "download"    -> {"head", "head.url", "fetch"}
          [] op = "getMetadata" -> {"head"}
          [] op = "delete"      -> {"del"}
          [] op = "exists"      -> {"head"}
          [] op = "list"        -> {"list"}
          [] op = "copy"        -> {"copy", "head"}
          [] op = "move"        -> {"copy", "head", "del", "rollback.del"}
          [] op = "getSignedUrl" -> {"head"}

\* The faults that may be forced on one operation.
FaultSets(op) == { F \in SUBSET FaultLabels(op) : Cardinality(F) <= MaxFaults }

\* The storage the adapter works on.
Store == IF adapter = "fs" THEN files ELSE objects

\* Dispatch to the adapter's class.
DoUpload(st, key, file, options, F) ==
    IF adapter = "fs" THEN FsUpload(st, config, key, file, options, F)
    ELSE IF adapter = "s3" THEN S3Upload(st, config, key, file, options, F)
    ELSE VercelUpload(st, config, key, file, options, F)

DoDownload(st, key, range, F) ==
    IF adapter = "fs" THEN FsDownload(st, config, key, range, F)
    ELSE IF adapter = "s3" THEN S3Download(st, config, key, range, F)
    ELSE VercelDownload(st, config, key, range, F)

DoGetMetadata(st, key, F) ==
    IF adapter = "fs" THEN FsGetMetadata(st, config, key, F)
    ELSE IF adapter = "s3" THEN S3GetMetadata(st, config, key, F)
    ELSE VercelGetMetadata(st, config, key, F)

DoDelete(st, key, F) ==
    IF adapter = "fs" THEN FsDelete(st, config, key, F)
    ELSE IF adapter = "s3" THEN S3Delete(st, config, key, F)
    ELSE VercelDelete(st, config, key, F)

DoExists(st, key, F) ==
    IF adapter = "fs" THEN FsExists(st, config, key, F)
    ELSE IF adapter = "s3" THEN S3Exists(st, config, key, F)
    ELSE VercelExists(st, config, key, F)

DoList(st, prefix, limitOpt, cursor, F, ord) ==
    IF adapter = "fs" THEN FsList(st, config, prefix, limitOpt, cursor, F, ord)
    ELSE IF adapter = "s3" THEN S3List(st, config, prefix, limitOpt, cursor, F)
    ELSE VercelList(st, config, prefix, limitOpt, cursor, F)

DoCopy(st, sourceKey, destinationKey, F) ==
    IF adapter = "fs" THEN FsCopy(st, config, sourceKey, destinationKey, F)
    ELSE IF adapter = "s3" THEN S3Copy(st, config, sourceKey, destinationKey, F)
    ELSE VercelCopy(st, config, sourceKey, destinationKey, F)

DoMove(st, sourceKey, destinationKey, F) ==
    IF adapter = "fs" THEN FsMove(st, config, sourceKey, destinationKey, F)
    ELSE IF adapter = "s3" THEN S3Move(st, config, sourceKey, destinationKey, F)
    ELSE VercelMove(st, config, sourceKey, destinationKey, F)

DoGetSignedUrl(st, key, options, F) ==
    IF adapter = "fs" THEN FsGetSignedUrl(st, config, key, options)
    ELSE IF adapter = "s3" THEN S3GetSignedUrl(st, config, key, options)
    ELSE VercelGetSignedUrl(st, config, key, options, F)

DoGetSignedUrlUpload(st, key, options) ==
    IF adapter = "fs" THEN FsGetSignedUrlUpload(st, config, key, options)
    ELSE IF adapter = "s3" THEN S3GetSignedUrlUpload(st, config, key, options)
    ELSE VercelGetSignedUrlUpload(st, config, key, options)

----------------------------------------------------------------------------
(* What a caller observes of a storage state: the contract's read operations
   with no fault forced. *)

ExistsAt(st, key) == DoExists(st, key, {}).val = Some(TRUE)

\* The record getMetadata returns (optional), None also when it throws.
MetadataAt(st, key) ==
    LET Answer(r) == IF r.ok THEN r.val[1] ELSE None
    IN  Answer(DoGetMetadata(st, key, {}))

\* The content download returns (optional), None when it throws.
ContentAt(st, key) ==
    LET Answer(r) == IF r.ok THEN Some(r.val[1].content) ELSE None
    IN  Answer(DoDownload(st, key, None, {}))

\* The objects (full keys) under a prefix: what list answers with no limit
\* given and no cursor.
Listable(st, prefix) == Range(DoList(st, prefix, None, None, {}, "asc").val[1].ids)

----------------------------------------------------------------------------
(* The state machine *)

\* The ranges callers ask for: none, one byte, the first five bytes.
Ranges ==
    { None, Some([startByte |-> 1, endByte |-> 1]), Some([startByte |-> 0, endByte |-> 4]) }

LimitOptions == { None } \cup { Some(n) : n \in Limits }

\* The orders readdir may answer in; the object stores list in key order.
ReaddirOrders == IF adapter = "fs" THEN {"asc", "desc"} ELSE {"asc"}

NoArgs ==
    [key |-> <<>>, dest |-> <<>>, file |-> None, prefix |-> <<>>,
     limit |-> None, cursor |-> None, range |-> None, options |-> None]

\* What `last` keeps of an operation: its outcome r, and whether the faults
\* forced on it made a difference (clean is the outcome with none forced).
Outcome(op, r, F, clean, args) ==
    [op |-> op, ok |-> r.ok, val |-> r.val, err |-> r.err, log |-> r.log,
     phase |-> IF "phase" \in DOMAIN r THEN r.phase ELSE <<>>,
     faulted |-> F # {} /\ r # clean]
    @@ args @@ NoArgs

NoHistory == [uploaded |-> None, touched |-> FALSE]

Idle ==
    [state |-> "idle", prefix |-> <<>>, limit |-> 0, ord |-> "asc", cursor |-> None,
     ids |-> <<>>, calls |-> 0, n |-> 0]

\* No upload in flight.
NoUploads == [key |-> <<>>, procs |-> <<>>, order |-> <<>>]

Init ==
    /\ adapter \in Adapters
    /\ config \in { [basePath |-> b, baseUrl |-> u] : b \in BasePaths, u \in BaseUrls(adapter) }
    /\ files = [p \in {} |-> p]
    /\ objects = [k \in {} |-> k]
    /\ last = Outcome("none", Ret(<<>>, TRUE, <<>>), {}, Ret(<<>>, TRUE, <<>>), NoArgs)
    /\ hist = [k \in Keys |-> NoHistory]
    /\ pg = Idle
    /\ inflight = NoUploads
    /\ opCount = 0

\* A contract operation is issued: outside a pagination loop, and while the
\* run is followed.
Issue ==
    /\ pg.state = "idle"
    /\ inflight = NoUploads
    /\ opCount < MaxOps
    /\ opCount' = opCount + 1

SetStore(st) ==
    IF adapter = "fs"
    THEN files' = st /\ UNCHANGED objects
    ELSE objects' = st /\ UNCHANGED files

Upload(key, file, options, F) ==
    LET Done(r, clean) ==
            /\ SetStore(r.st)
            /\ last' = Outcome("upload", r, F, clean,
                               [key |-> key, file |-> Some(file), options |-> Some(options)])
            /\ hist' = [hist EXCEPT ![key] =
                          [uploaded |-> IF r.ok THEN Some(ContentOf(file)) ELSE None,
                           touched |-> TRUE]]
    IN  /\ Issue
        /\ Done(DoUpload(Store, key, file, options, F),
                DoUpload(Store, key, file, options, {}))
        /\ UNCHANGED <<adapter, config, pg, inflight>>

Download(key, range, F) ==
    LET Done(r, clean) ==
            /\ SetStore(r.st)
            /\ last' = Outcome("download", r, F, clean, [key |-> key, range |-> range])
    IN  /\ Issue
        /\ Done(DoDownload(Store, key, range, F), DoDownload(Store, key, range, {}))
        /\ UNCHANGED <<adapter, config, hist, pg, inflight>>

GetMetadata(key, F) ==
    LET Done(r, clean) ==
            /\ SetStore(r.st)
            /\ last' = Outcome("getMetadata", r, F, clean, [key |-> key])
    IN  /\ Issue
        /\ Done(DoGetMetadata(Store, key, F), DoGetMetadata(Store, key, {}))
        /\ UNCHANGED <<adapter, config, hist, pg, inflight>>

Delete(key, F) ==
    LET Done(r, clean) ==
            /\ SetStore(r.st)
            /\ last' = Outcome("delete", r, F, clean, [key |-> key])
            /\ hist' = [hist EXCEPT ![key].uploaded = None]
    IN  /\ Issue
        /\ Done(DoDelete(Store, key, F), DoDelete(Store, key, {}))
        /\ UNCHANGED <<adapter, config, pg, inflight>>

ExistsOp(key, F) ==
    LET Done(r, clean) ==
            /\ SetStore(r.st)
            /\ last' = Outcome("exists", r, F, clean, [key |-> key])
    IN  /\ Issue
        /\ Done(DoExists(Store, key, F), DoExists(Store, key, {}))
        /\ UNCHANGED <<adapter, config, hist, pg, inflight>>

List(prefix, limitOpt, cursor, F, ord) ==
    LET Done(r, clean) ==
            /\ SetStore(r.st)
            /\ last' = Outcome("list", r, F, clean,
                               [prefix |-> prefix, limit |-> limitOpt, cursor |-> cursor])
    IN  /\ Issue
        /\ Done(DoList(Store, prefix, limitOpt, cursor, F, ord),
                DoList(Store, prefix, limitOpt, cursor, {}, ord))
        /\ UNCHANGED <<adapter, config, hist, pg, inflight>>

Copy(sourceKey, destinationKey, F) ==
    LET Done(r, clean) ==
            /\ SetStore(r.st)
            /\ last' = Outcome("copy", r, F, clean,
                               [key |-> sourceKey, dest |-> destinationKey])
            /\ hist' = [hist EXCEPT ![destinationKey] =
                          [uploaded |-> None, touched |-> TRUE]]
    IN  /\ Issue
        /\ Done(DoCopy(Store, sourceKey, destinationKey, F),
                DoCopy(Store, sourceKey, destinationKey, {}))
        /\ UNCHANGED <<adapter, config, pg, inflight>>

Move(sourceKey, destinationKey, F) ==
    LET Done(r, clean) ==
            /\ SetStore(r.st)
            /\ last' = Outcome("move", r, F, clean,
                               [key |-> sourceKey, dest |-> destinationKey])
            /\ hist' = [k \in Keys |->
                          IF k = destinationKey THEN [uploaded |-> None, touched |-> TRUE]
                          ELSE IF k = sourceKey THEN [hist[k] EXCEPT !.uploaded = None]
                          ELSE hist[k]]
    IN  /\ Issue
        /\ Done(DoMove(Store, sourceKey, destinationKey, F),
                DoMove(Store, sourceKey, destinationKey, {}))
        /\ UNCHANGED <<adapter, config, pg, inflight>>

GetSignedUrl(key, options, F) ==
    LET Done(r, clean) ==
            /\ SetStore(r.st)
            /\ last' = Outcome("getSignedUrl", r, F, clean,
                               [key |-> key, options |-> Some(options)])
    IN  /\ Issue
        /\ Done(DoGetSignedUrl(Store, key, options, F), DoGetSignedUrl(Store, key, options, {}))
        /\ UNCHANGED <<adapter, config, hist, pg, inflight>>

GetSignedUrlUpload(key, options) ==
    LET Done(r) ==
            /\ SetStore(r.st)
            /\ last' = Outcome("getSignedUrlUpload", r, {}, r,
                               [key |-> key, options |-> Some(options)])
    IN  /\ Issue
        /\ Done(DoGetSignedUrlUpload(Store, key, options))
        /\ UNCHANGED <<adapter, config, hist, pg, inflight>>

\* A caller starts the pagination loop: N objects under the prefix, a fixed
\* limit below N, no cursor for the first call.  Nothing else runs meanwhile.
StartPaging(prefix, limit, ord) ==
    /\ pg.state = "idle"
    /\ inflight = NoUploads
    /\ limit >= 1
    /\ limit < Cardinality(Listable(Store, prefix))
    /\ pg' = [Idle EXCEPT !.state = "paging", !.prefix = prefix, !.limit = limit,
                          !.ord = ord, !.n = Cardinality(Listable(Store, prefix))]
    /\ UNCHANGED <<adapter, config, files, objects, last, hist, inflight, opCount>>

\* One turn of the loop: list with the cursor of the previous page, keep the
\* page, go on while hasMore.
PageStep ==
    LET Done(r) ==
            /\ SetStore(r.st)
            /\ last' = Outcome("list", r, {}, r,
                               [prefix |-> pg.prefix, limit |-> Some(pg.limit),
                                cursor |-> pg.cursor])
            /\ pg' = [pg EXCEPT !.state = IF r.val[1].hasMore THEN "paging" ELSE "done",
                                !.cursor = r.val[1].nextCursor,
                                !.ids = @ \o r.val[1].ids,
                                !.calls = @ + 1]
    IN  /\ pg.state = "paging"
        /\ pg.calls < MaxPages
        /\ Done(DoList(Store, pg.prefix, Some(pg.limit), pg.cursor, {}, pg.ord))
        /\ UNCHANGED <<adapter, config, hist, inflight, opCount>>

\* The caller leaves the loop: it is over, or the model follows it no longer.
FinishPaging ==
    /\ \/ pg.state = "done"
       \/ pg.state = "paging" /\ pg.calls = MaxPages
    /\ pg' = Idle
    /\ UNCHANGED <<adapter, config, files, objects, last, hist, inflight, opCount>>

\* The cursors callers pass: none, and the key of a first page's last object.
\* A caller of a fresh FsAdapter calls upload(key, ..) twice without awaiting
\* the first call: both run on the event loop, each suspended at its next
\* await.  The pair stands for all the operations the caller makes.
StartUploads(key, u1, u2) ==
    /\ adapter = "fs"
    /\ pg.state = "idle"
    /\ inflight = NoUploads
    /\ opCount = 0
    /\ opCount' = MaxOps
    /\ inflight' = [key |-> key,
                    procs |-> <<[pc |-> "mkdir", file |-> u1.file, options |-> u1.options,
                                 size |-> 0],
                                [pc |-> "mkdir", file |-> u2.file, options |-> u2.options,
                                 size |-> 0]>>,
                    order |-> <<>>]
    /\ hist' = [hist EXCEPT ![key] = [uploaded |-> None, touched |-> TRUE]]
    /\ UNCHANGED <<adapter, config, files, objects, last, pg>>

\* The event loop resumes upload p: it runs up to its next await.  Each write
\* is taken as a whole; a write torn between the two uploads would only add
\* outcomes.
UploadStep(p) ==
    LET At(proc, filePath, metadataPath) ==
            CASE proc.pc = "mkdir" ->
                    /\ inflight' = [inflight EXCEPT !.procs[p].pc = "writeFile"]
                    /\ UNCHANGED files
              [] proc.pc = "writeFile" ->
                    /\ files' = WriteFile(files, filePath, UploadBuffer(proc.file))
                    /\ inflight' = [inflight EXCEPT !.procs[p].pc = "stat"]
              [] proc.pc = "stat" ->
                    /\ inflight' = [inflight EXCEPT !.procs[p].pc = "writeFile.meta",
                                                    !.procs[p].size = BufLen(files[filePath])]
                    /\ UNCHANGED files
              [] proc.pc = "writeFile.meta" ->
                    /\ files' = WriteFile(files, metadataPath,
                                          JsonStringify(UploadMetadata(inflight.key,
                                                                       proc.options,
                                                                       proc.size)))
                    /\ inflight' = [inflight EXCEPT !.procs[p].pc = "done",
                                                    !.order = Append(@, p)]
    IN  /\ p \in DOMAIN inflight.procs
        /\ inflight.procs[p].pc # "done"
        /\ At(inflight.procs[p], getFilePath(config, inflight.key),
              getMetadataPath(config, inflight.key))
        /\ UNCHANGED <<adapter, config, objects, last, hist, pg, opCount>>

\* The pairs of different uploads, the shorter content first.
UploadPairs ==
    { pair \in Uploads \X Uploads :
        Len(ContentOf(pair[1].file)) < Len(ContentOf(pair[2].file)) }

Cursors == { None, Some(getFullKey(config, KeyA)) }

Next ==
    \/ \E key \in Keys, u \in Uploads, F \in FaultSets("upload") :
          Upload(key, u.file, u.options, F)
    \/ \E key \in Keys, range \in Ranges, F \in FaultSets("download") :
          Download(key, range, F)
    \/ \E key \in Keys, F \in FaultSets("getMetadata") : GetMetadata(key, F)
    \/ \E key \in Keys, F \in FaultSets("delete") : Delete(key, F)
    \/ \E key \in Keys, F \in FaultSets("exists") : ExistsOp(key, F)
    \/ \E prefix \in Prefixes, limitOpt \in LimitOptions, cursor \in Cursors,
          F \in FaultSets("list"), ord \in ReaddirOrders :
          List(prefix, limitOpt, cursor, F, ord)
    \/ \E sourceKey \in Keys, destinationKey \in Keys, F \in FaultSets("copy") :
          Copy(sourceKey, destinationKey, F)
    \/ \E sourceKey \in Keys, destinationKey \in Keys, F \in FaultSets("move") :
          Move(sourceKey, destinationKey, F)
    \/ \E key \in Keys, options \in SignedUrlOptions, F \in FaultSets("getSignedUrl") :
          GetSignedUrl(key, options, F)
    \/ \E key \in Keys, options \in SignedUrlOptions : GetSignedUrlUpload(key, options)
    \/ \E key \in Keys, pair \in UploadPairs : StartUploads(key, pair[1], pair[2])
    \/ \E p \in 1..2 : UploadStep(p)
    \/ \E prefix \in Prefixes, limit \in Limits, ord \in ReaddirOrders :
          StartPaging(prefix, limit, ord)
    \/ PageStep
    \/ FinishPaging

Spec == Init /\ [][Next]_vars

----------------------------------------------------------------------------
(* Properties: move *)

\* The phases of the operation recorded in l.
PhaseRan(l, name) == \E i \in DOMAIN l.phase : l.phase[i].name = name
PhaseOk(l, name) == \E i \in DOMAIN l.phase : l.phase[i].name = name /\ l.phase[i].ok
PhaseFailed(l, name) == \E i \in DOMAIN l.phase : l.phase[i].name = name /\ ~l.phase[i].ok

\* This step is the contract operation op.
IsOp(op) == opCount' = opCount + 1 /\ last'.op = op

\* The keys that are not named like the sidecar of another key (for a key
\* that is, see C29).
PlainKeys == { k \in Keys : ~EndsWith(k, METADATA_FILE_EXTENSION) }

\* A move between two different plain keys.
PlainMove(l) == l.op = "move" /\ l.key \in PlainKeys /\ l.dest \in PlainKeys /\ l.key # l.dest

\* The backend calls that delete, and those of the copy phase.
DeleteCalls == {"unlink", "DeleteObject", "del"}
CopyCalls == {"mkdir", "copyFile", "CopyObject", "copy"}

\* C1: on every adapter, when the copy phase of move succeeds and the delete
\* of the source fails, move reports a failure (it returns no FileMetadata)
\* and the destination object still exists.  Stated for moves between two
\* different plain keys.
C1_DeleteFailureReported ==
    (PlainMove(last) /\ PhaseOk(last, "copy") /\ PhaseFailed(last, "delete"))
        => (~last.ok /\ ExistsAt(Store, last.dest))

\* C2: when the delete of the source fails after a successful copy to a key
\* that held no object, the adapter attempts a rollback (a delete of the
\* destination), and when that rollback succeeds the source is intact with
\* its original content and no object exists at the destination.  Stated for
\* moves between two different plain keys.
C2_RollbackStep ==
    (/\ IsOp("move")
     /\ PlainMove(last')
     /\ PhaseOk(last', "copy")
     /\ PhaseFailed(last', "delete")
     /\ ~ExistsAt(Store, last'.dest))
        => /\ PhaseRan(last', "rollback")
           /\ PhaseOk(last', "rollback")
                 => /\ ContentAt(Store', last'.key) = ContentAt(Store, last'.key)
                    /\ ~ExistsAt(Store', last'.dest)

\* C2: every move step whose delete of the source fails after a successful
\* copy to a free key attempts the rollback, and a successful rollback leaves
\* the store as it was before the move.
C2_RollbackRestores == [][C2_RollbackStep]_vars

\* C3: when the delete of the source fails and no rollback removes the
\* destination, so that source and destination are both present, move fails
\* with a message that states the cause of the delete failure and that a
\* duplicate may exist; the duplicate is never behind a success result.
\* Stated for moves between two different plain keys.
C3_DuplicateSurfaced ==
    (/\ PlainMove(last)
     /\ PhaseOk(last, "copy")
     /\ PhaseFailed(last, "delete")
     /\ ~PhaseOk(last, "rollback")
     /\ ExistsAt(Store, last.key)
     /\ ExistsAt(Store, last.dest))
        => /\ ~last.ok
           /\ StatesCause(last.err[1])
           /\ MentionsDuplicate(last.err[1])

\* C4: in move the source is deleted only after the copy has succeeded; when
\* the copy fails, move fails, issues no delete (of the source or as a
\* rollback), and a source that existed still exists with the same content.
C4_CopyFirstStep ==
    IsOp("move") =>
        /\ PhaseRan(last', "delete") => PhaseOk(last', "copy")
        /\ \A i, j \in DOMAIN last'.log :
              (last'.log[i].call \in DeleteCalls /\ last'.log[j].call \in CopyCalls) => j < i
        /\ ~PhaseOk(last', "copy") =>
              /\ ~last'.ok
              /\ \A i \in DOMAIN last'.log : last'.log[i].call \notin DeleteCalls
              /\ ExistsAt(Store, last'.key) =>
                    /\ ExistsAt(Store', last'.key)
                    /\ ContentAt(Store', last'.key) = ContentAt(Store, last'.key)

\* C4: every move step deletes only after a successful copy, and a move step
\* whose copy fails issues no delete and leaves the source as it was.
C4_CopyBeforeDelete == [][C4_CopyFirstStep]_vars

\* C5: for distinct keys and an existing source, when move returns, the
\* source no longer exists, the destination exists, its content is the
\* content the source held before, and the returned FileMetadata is that of
\* the object at the destination (compared when no backend call of the move
\* failed).  Stated for plain keys.
C5_MoveStep ==
    (/\ IsOp("move")
     /\ PlainMove(last')
     /\ last'.ok
     /\ ExistsAt(Store, last'.key))
        => /\ ~ExistsAt(Store', last'.key)
           /\ ExistsAt(Store', last'.dest)
           /\ ContentAt(Store', last'.dest) = ContentAt(Store, last'.key)
           /\ ~last'.faulted => MetadataAt(Store', last'.dest) = last'.val

\* C5: every move step between distinct keys that returns FileMetadata has
\* removed the source and left its content, described by that FileMetadata,
\* at the destination.
C5_MoveCompletes == [][C5_MoveStep]_vars

----------------------------------------------------------------------------
(* Properties: list *)

NoDuplicates(seq) == \A i, j \in DOMAIN seq : seq[i] = seq[j] => i = j

\* C6: the pagination loop over N objects under a prefix with a fixed limit
\* below N returns every object exactly once and ends: no page repeats an
\* object, every object returned is one of the N, the loop is over after at
\* most N calls, and when it is over all N have been returned.
C6_PaginationConverges ==
    pg.state # "idle" =>
        /\ NoDuplicates(pg.ids)
        /\ Range(pg.ids) \subseteq Listable(Store, pg.prefix)
        /\ pg.state = "paging" => pg.calls < pg.n
        /\ pg.state = "done" => Range(pg.ids) = Listable(Store, pg.prefix)

\* C7: a first page (no cursor, a limit of at least 1 or the default limit)
\* has hasMore = true exactly when the listing was truncated: some object
\* under the prefix is not among the files returned.
C7_HasMoreIffTruncated ==
    (/\ last.op = "list"
     /\ last.ok
     /\ ~last.faulted
     /\ last.cursor = None
     /\ last.limit # Some(0))
        => (last.val[1].hasMore
              <=> \E id \in Listable(Store, last.prefix) : id \notin Range(last.val[1].ids))

----------------------------------------------------------------------------
(* Properties: upload, download, exists, getMetadata *)

\* C8: on every adapter, after upload(k, c) has succeeded and while no write
\* has named k, download(k) without a range returns exactly the bytes of c;
\* and the sizeInBytes upload returns is the length of c.
C8_RoundTrip ==
    /\ \A k \in Keys :
          hist[k].uploaded # None
              => ContentAt(Store, k) = Some(Bytes(hist[k].uploaded[1]))
    /\ (last.op = "upload" /\ last.ok)
          => last.val[1].sizeInBytes = Len(ContentOf(last.file[1]))

\* C9: for every key k, exists(k) is false while nothing has been stored
\* under k, true after a successful upload(k), false after delete(k) has
\* returned true; exists answers from the stored state alone and leaves the
\* stored state as it is.
C9_ExistsStep ==
    /\ \A k \in Keys : ~hist'[k].touched => ~ExistsAt(Store', k)
    /\ (IsOp("upload") /\ last'.ok) => ExistsAt(Store', last'.key)
    /\ (IsOp("delete") /\ last'.ok /\ last'.val = Some(TRUE)) => ~ExistsAt(Store', last'.key)
    /\ IsOp("exists") =>
          /\ Store' = Store
          /\ (last'.ok /\ ~last'.faulted) => last'.val = Some(ExistsAt(Store, last'.key))

\* C9: every step keeps exists(k) false for a key nothing was stored under,
\* makes it true by a successful upload(k) and false by a delete(k) that
\* returns true, and an exists step answers from the store and leaves it as
\* it is.
C9_ExistsLifecycle == [][C9_ExistsStep]_vars

\* C10: in every reachable state and for every key k, exists(k) does not
\* throw and is true exactly when getMetadata(k) returns a record.
C10_ExistsAgreesWithMetadata ==
    \A k \in Keys :
        /\ DoExists(Store, k, {}).ok
        /\ ExistsAt(Store, k) <=> (MetadataAt(Store, k) # None)

----------------------------------------------------------------------------
(* Properties: delete, getMetadata, copy *)

\* The storage holds an object at key: its data file, or its entry in the
\* bucket.
HoldsObject(st, key) ==
    IF adapter = "fs" THEN Exists(st, getFilePath(config, key))
    ELSE getFullKey(config, key) \in DOMAIN st

\* The target of a backend call is present in the storage.
TargetPresent(st, target) == IF adapter = "fs" THEN Exists(st, target) ELSE target \in DOMAIN st

C11_DeleteStep ==
    IsOp("delete") =>
        /\ last'.val = Some(TRUE)
              => (HoldsObject(Store, last'.key) /\ ~HoldsObject(Store', last'.key))
        /\ ~last'.faulted =>
              /\ last'.ok
              /\ last'.val = Some(HoldsObject(Store, last'.key))

\* C11: on every adapter a delete(k) that returns true found an object at k
\* and removed it, and a delete(k) no backend failure is forced on returns
\* (never throws) true when k held an object and false when it held none.
C11_DeleteTrueIffRemoved == [][C11_DeleteStep]_vars

\* C12: on every adapter and in every reachable state, getMetadata(k) of a key
\* that holds no object returns null and does not throw.
C12_MetadataOfMissingIsNull ==
    \A k \in Keys :
        ~HoldsObject(Store, k)
            => /\ DoGetMetadata(Store, k, {}).ok
               /\ DoGetMetadata(Store, k, {}).val = Some(None)

C13_SurfacedStep ==
    LET BackendFailed ==
            /\ last'.key \in PlainKeys
            /\ \E i \in DOMAIN last'.log :
                  ~last'.log[i].ok /\ TargetPresent(Store, last'.log[i].target)
    IN  /\ (IsOp("getMetadata") /\ BackendFailed) => ~(last'.ok /\ last'.val[1] = None)
        /\ (IsOp("delete") /\ BackendFailed) => ~(last'.ok /\ last'.val[1] = FALSE)

\* C13: on every adapter, when a backend call of getMetadata or delete fails
\* although its target is present (the failure is not a not-found), the
\* operation does not return null or false.  Stated for plain keys.
C13_OnlyNotFoundSwallowed == [][C13_SurfacedStep]_vars

C14_CopyStep ==
    (/\ IsOp("copy")
     /\ last'.ok
     /\ last'.key # last'.dest
     /\ HoldsObject(Store, last'.key))
        => /\ ContentAt(Store', last'.dest) = ContentAt(Store', last'.key)
           /\ ContentAt(Store', last'.key) = ContentAt(Store, last'.key)
           /\ MetadataAt(Store', last'.key) = MetadataAt(Store, last'.key)
           /\ ~last'.faulted => MetadataAt(Store', last'.dest) = last'.val

\* C14: after a copy(a, b) of an existing a to another key b has succeeded, b
\* downloads the content a downloads, a has the content and the metadata it
\* had before, and the FileMetadata returned is that of the object at b
\* (compared when no backend call of the copy failed).
C14_CopyLeavesSource == [][C14_CopyStep]_vars

C15_CopyFailureStep ==
    (/\ IsOp("copy")
     /\ last'.key \in PlainKeys
     /\ last'.dest \in PlainKeys
     /\ last'.key # last'.dest)
        => /\ ~HoldsObject(Store, last'.key) => ~last'.ok
           /\ (\E i \in DOMAIN last'.log :
                  /\ last'.log[i].call \in {"copyFile", "CopyObject", "copy"}
                  /\ last'.log[i].target = (IF adapter = "fs"
                                            THEN getFilePath(config, last'.dest)
                                            ELSE getFullKey(config, last'.dest))
                  /\ ~last'.log[i].ok) => ~last'.ok
           /\ (~last'.ok /\ ~HoldsObject(Store, last'.dest))
                 => /\ ~ExistsAt(Store', last'.dest)
                    /\ MetadataAt(Store', last'.dest) = None

\* C15: a copy whose source is missing, or whose backend copy of the object
\* fails, fails; and after a copy that failed, a destination that held no
\* object before is not reported by exists or getMetadata.  Stated for copies
\* between two different plain keys.
C15_NoPartialDestination == [][C15_CopyFailureStep]_vars

----------------------------------------------------------------------------
(* Properties: sizeInBytes, ranged download *)

\* The stored byte length of the object at a full key, and at a key.
StoredLengthAt(st, fullKey) ==
    IF adapter = "fs" THEN BufLen(st[join(rootDir, fullKey)]) ELSE BufLen(st[fullKey].body)

StoredLength(st, key) == StoredLengthAt(st, getFullKey(config, key))

\* The record m tells the stored length of the object at key, when there is one.
SizeOf(m, key) ==
    HoldsObject(Store, key) => (m.sizeInBytes >= 0 /\ m.sizeInBytes = StoredLength(Store, key))

\* C17: the FileMetadata or FileObject an operation has just produced has a
\* sizeInBytes that is not negative and is the stored byte length of the
\* object it describes: the object at the key for upload, download (with or
\* without a range) and getMetadata, the object at the destination for copy
\* and move, each listed object for list.  Stated for plain keys.
C17_SizeIsStoredLength ==
    (last.ok /\ last.key \in PlainKeys \cup {<<>>}) =>
        /\ last.op = "upload" => SizeOf(last.val[1], last.key)
        /\ last.op = "download" => SizeOf(last.val[1].metadata, last.key)
        /\ (last.op = "getMetadata" /\ last.val[1] # None) => SizeOf(last.val[1][1], last.key)
        /\ (last.op \in {"copy", "move"} /\ last.dest \in PlainKeys /\ last.key # last.dest)
              => SizeOf(last.val[1], last.dest)
        /\ last.op = "list" =>
              \A i \in DOMAIN last.val[1].files :
                  /\ last.val[1].files[i].sizeInBytes >= 0
                  /\ last.val[1].files[i].sizeInBytes
                        = StoredLengthAt(Store, last.val[1].ids[i])

\* The stored bytes of the object at key (the model keeps no bytes for the
\* JSON text of a sidecar).
StoredBytes(st, key) ==
    IF adapter = "fs" THEN st[getFilePath(config, key)] ELSE st[getFullKey(config, key)].body

\* C18: on FsAdapter and S3Adapter a download of stored bytes c with a range
\* {startByte: s, endByte: e}, 0 <= s <= e < length(c), returns exactly the
\* e - s + 1 bytes c[s..e], both bounds included.
C18_RangeInclusive ==
    (/\ adapter \in {"fs", "s3"}
     /\ last.op = "download"
     /\ last.ok
     /\ last.range # None
     /\ HoldsObject(Store, last.key)
     /\ StoredBytes(Store, last.key).json = None
     /\ 0 <= last.range[1].startByte
     /\ last.range[1].startByte <= last.range[1].endByte
     /\ last.range[1].endByte < Len(StoredBytes(Store, last.key).bytes))
        => /\ last.val[1].content.bytes
                 = [i \in 1..(last.range[1].endByte - last.range[1].startByte + 1) |->
                      StoredBytes(Store, last.key).bytes[last.range[1].startByte + i]]
           /\ Len(last.val[1].content.bytes)
                 = last.range[1].endByte - last.range[1].startByte + 1

\* Range {0, 4} of the stored 'hello world' has returned the 5 bytes 'hello'.
C18_HelloDownloaded ==
    /\ adapter \in {"fs", "s3"}
    /\ last.op = "download"
    /\ last.ok
    /\ last.range = Some([startByte |-> 0, endByte |-> 4])
    /\ HoldsObject(Store, last.key)
    /\ StoredBytes(Store, last.key) = Bytes(HelloWorld)
    /\ last.val[1].content.bytes = <<104, 101, 108, 108, 111>>

----------------------------------------------------------------------------
(* Concurrent uploads to one key *)

\* C16: when two concurrent uploads to one key on an FsAdapter have both
\* completed, the stored state is that of the upload that completed last:
\* download returns the content that upload wrote and getMetadata the record
\* that upload alone would have stored (sizeInBytes, mimeType, customMetadata).
C16_LastUploadWins ==
    (inflight.key \in PlainKeys /\ Len(inflight.order) = 2) =>
        LET Wins(w) ==
                /\ ContentAt(Store, inflight.key) = Some(UploadBuffer(w.file))
                /\ MetadataAt(Store, inflight.key)
                      = Some(UploadMetadata(inflight.key, w.options,
                                            BufLen(UploadBuffer(w.file))))
        IN  Wins(inflight.procs[inflight.order[2]])

----------------------------------------------------------------------------
(* Capability-unsupported operations *)

C19_UnsupportedStep ==
    LET Unsupported ==
            \/ IsOp("getSignedUrlUpload") /\ adapter \in {"fs", "vercel"}
            \/ IsOp("download") /\ adapter = "vercel" /\ last'.range # None
    IN  Unsupported => /\ ~last'.ok
                       /\ last'.val = None
                       /\ last'.log = <<>>
                       /\ Store' = Store

\* C19: FsAdapter.getSignedUrlUpload and VercelBlobAdapter.getSignedUrlUpload
\* fail for every key and options, and VercelBlobAdapter.download with a range
\* fails for every key and returns no content; none of them makes a backend
\* call or changes the stored state.
C19_UnsupportedAlwaysFails == [][C19_UnsupportedStep]_vars

\* A ranged download of an object the Vercel Blob store holds has failed
\* without a backend call.
C19_RangedBlobDownloadRefused ==
    /\ adapter = "vercel"
    /\ last.op = "download"
    /\ last.range # None
    /\ HoldsObject(Store, last.key)
    /\ ~last.ok
    /\ last.log = <<>>

----------------------------------------------------------------------------
(* FsAdapter.getSignedUrl *)

\* The key with the basePath put in front of it once.
PrefixedOnce(key) ==
    IF config.basePath = <<>> THEN key ELSE config.basePath \o <<"/">> \o key

C20_PublicUrlStep ==
    (IsOp("getSignedUrl") /\ adapter = "fs") =>
        /\ ~last'.ok <=> config.baseUrl = <<>>
        /\ ~last'.ok => last'.err = Some(Err("baseUrl not configured for FsAdapter"))
        /\ last'.ok => last'.val = Some(config.baseUrl \o <<"/">> \o PrefixedOnce(last'.key))
        /\ last'.log = <<>>
        /\ Store' = Store

\* C20: FsAdapter.getSignedUrl(key) fails with a configuration error exactly
\* when no baseUrl is configured (unset or empty); with a baseUrl it returns
\* baseUrl + '/' + the key with basePath applied once, whatever expiresIn is
\* and whether or not the object exists.
C20_PublicUrlIffBaseUrl == [][C20_PublicUrlStep]_vars

\* With baseUrl 'https://example.test' and a basePath, the URL of a key that
\* holds no object has been returned.
C20_UrlOfAbsentObject ==
    /\ adapter = "fs"
    /\ last.op = "getSignedUrl"
    /\ config.baseUrl = ExampleUrl
    /\ config.basePath # <<>>
    /\ ~HoldsObject(Store, last.key)
    /\ last.ok
    /\ last.val = Some(ExampleUrl \o <<"/">> \o config.basePath \o <<"/">> \o last.key)

----------------------------------------------------------------------------
(* FsAdapter: metadata without a usable sidecar *)

\* The record made from file attributes alone: the last path segment, the
\* MIME type of the extension, the size of the data file.
Synthesized(key, size) ==
    [name |-> Split(key)[Len(Split(key))],
     mimeType |-> IF EndsWith(key, <<".", "j", "s", "o", "n">>)
                  THEN "application/json" ELSE "application/octet-stream",
     sizeInBytes |-> size,
     customMetadata |-> None]

\* C24: on FsAdapter, whenever the data file of k exists and its sidecar is
\* missing or does not parse, getMetadata(k) returns the record synthesized
\* from the file's attributes and download(k) succeeds with that same
\* metadata; getMetadata(k) is null only when the data file is absent too.
C24_MetadataFallback ==
    adapter = "fs" =>
        \A k \in Keys :
            LET Holds(filePath, metadataPath, metadata, downloaded) ==
                    /\ (/\ Exists(files, filePath)
                        /\ (Exists(files, metadataPath) => JsonParse(files[metadataPath]) = None))
                          => /\ metadata.val
                                  = Some(Some(Synthesized(k, BufLen(files[filePath]))))
                             /\ downloaded.ok
                             /\ downloaded.val[1].metadata
                                  = Synthesized(k, BufLen(files[filePath]))
                             /\ downloaded.val[1].content = files[filePath]
                    /\ metadata.ok
                    /\ metadata.val = Some(None) => ~Exists(files, filePath)
            IN  Holds(getFilePath(config, k), getMetadataPath(config, k),
                      FsGetMetadata(files, config, k, {}),
                      FsDownload(files, config, k, None, {}))

\* getMetadata of a key whose data file exists without a sidecar has returned
\* the synthesized record.
C24_FallbackReturned ==
    /\ adapter = "fs"
    /\ last.op = "getMetadata"
    /\ ~last.faulted
    /\ Exists(files, getFilePath(config, last.key))
    /\ ~Exists(files, getMetadataPath(config, last.key))
    /\ last.val = Some(Some(Synthesized(last.key,
                                        BufLen(files[getFilePath(config, last.key)]))))

----------------------------------------------------------------------------
(* customMetadata *)

C25_CustomMetadataStep ==
    (/\ IsOp("upload")
     /\ last'.ok
     /\ last'.key \in PlainKeys
     /\ last'.options[1].metadata # None)
        => LET Same(m, metadata, downloaded) ==
                   /\ last'.val[1].customMetadata = m
                   /\ metadata.ok
                   /\ metadata.val[1] # None
                   /\ metadata.val[1][1].customMetadata = m
                   /\ downloaded.ok
                   /\ downloaded.val[1].metadata.customMetadata = m
           IN  Same(last'.options[1].metadata,
                    DoGetMetadata(Store', last'.key, {}),
                    DoDownload(Store', last'.key, None, {}))

\* C25: after upload(k, c, {metadata: m}) has succeeded, the record upload
\* returned and the records getMetadata(k) and download(k) return next carry
\* customMetadata equal to m, keys and values as given.
C25_CustomMetadataRoundTrip == [][C25_CustomMetadataStep]_vars

----------------------------------------------------------------------------
(* FsAdapter: the keys an operation leaves alone *)

C29_FrameStep ==
    LET Written(k) ==
            \/ IsOp("upload") /\ last'.key = k
            \/ IsOp("delete") /\ last'.key = k
            \/ IsOp("copy") /\ last'.dest = k
    IN  \A k \in Keys :
            (adapter = "fs" /\ Written(k)) =>
                \A other \in Keys \ {k} :
                    /\ ContentAt(Store', other) = ContentAt(Store, other)
                    /\ MetadataAt(Store', other) = MetadataAt(Store, other)
                    /\ ExistsAt(Store', other) = ExistsAt(Store, other)

\* C29: on FsAdapter upload(k, ..), delete(k) and copy(_, k) change the data
\* record and the sidecar record of k only: for every other key, k +
\* '.meta.json' included, download, getMetadata and exists answer after the
\* operation what they answered before it.
C29_OtherKeysUntouched == [][C29_FrameStep]_vars

----------------------------------------------------------------------------
(* move: the data after a reported success *)

C30_MoveKeepsDataStep ==
    (/\ IsOp("move")
     /\ last'.ok
     /\ last'.key \in PlainKeys
     /\ last'.dest \in PlainKeys)
        => /\ ExistsAt(Store', last'.dest)
           /\ ContentAt(Store', last'.dest) = ContentAt(Store, last'.key)

\* C30: when move(sourceKey, destinationKey) returns FileMetadata, also for
\* sourceKey = destinationKey, the object at destinationKey exists afterwards
\* and its content is the content the source held before the move.
C30_MoveNeverLosesData == [][C30_MoveKeepsDataStep]_vars

----------------------------------------------------------------------------
(* An adapter on a backend that already holds objects *)

KeyDE == <<"d", "/", "e">>

\* The keys uploaded through the adapter before the run starts.
SharedKeys == { KeyA, KeyDB, KeyDE }

\* What each of them was uploaded with.
SharedUpload == [file |-> BufferInput(HelloWorld), options |-> NoOptions]

\* upload(key, ..) through an adapter of this class configured with cfg.
UploadedBy(st, cfg, key, u) ==
    IF adapter = "fs" THEN FsUpload(st, cfg, key, u.file, u.options, {}).st
    ELSE IF adapter = "s3" THEN S3Upload(st, cfg, key, u.file, u.options, {}).st
    ELSE VercelUpload(st, cfg, key, u.file, u.options, {}).st

RECURSIVE UploadedAll(_, _, _)
UploadedAll(st, cfg, keys) ==
    IF keys = {} THEN st
    ELSE LET k == CHOOSE x \in keys : TRUE
         IN  UploadedAll(UploadedBy(st, cfg, k, SharedUpload), cfg, keys \ {k})

\* The configuration of another tenant of the same backend: the sibling
\* prefix basePath + '2' (as 'base2' is to 'base').
SiblingOf(cfg) == [cfg EXCEPT !.basePath = @ \o <<"2">>]

\* The backend after the adapter has uploaded the keys of own and, when
\* sibling, the other tenant has uploaded key 'a'.
SharedStore(cfg, own, sibling) ==
    LET Mine(st) == UploadedAll(st, cfg, own)
    IN  Mine(IF sibling THEN UploadedBy(<<>>, SiblingOf(cfg), KeyA, SharedUpload) ELSE <<>>)

SharedInit ==
    /\ adapter \in Adapters
    /\ config \in { [basePath |-> b, baseUrl |-> <<>>] : b \in BasePaths }
    /\ \E own \in SUBSET SharedKeys,
          sibling \in (IF config.basePath # <<>> THEN BOOLEAN ELSE {FALSE}) :
          /\ files = (IF adapter = "fs" THEN SharedStore(config, own, sibling) ELSE <<>>)
          /\ objects = (IF adapter # "fs" THEN SharedStore(config, own, sibling) ELSE <<>>)
          /\ hist = [k \in SharedKeys |->
                       IF k \in own
                       THEN [uploaded |-> Some(ContentOf(SharedUpload.file)), touched |-> TRUE]
                       ELSE NoHistory]
    /\ last = Outcome("none", Ret(<<>>, TRUE, <<>>), {}, Ret(<<>>, TRUE, <<>>), NoArgs)
    /\ pg = Idle
    /\ inflight = NoUploads
    /\ opCount = 0

\* The limits callers list with here: none, and 0 up to the number of keys.
SharedLimitOptions == { None } \cup { Some(n) : n \in 0..MaxLimit }

SharedNext ==
    \E prefix \in Prefixes, limitOpt \in SharedLimitOptions, ord \in ReaddirOrders :
        List(prefix, limitOpt, None, {}, ord)

SharedSpec == SharedInit /\ [][SharedNext]_vars

\* Key k lies under the listing prefix.
Under(k, prefix) == prefix = <<>> \/ StartsWith(k, prefix \o <<"/">>)

\* C23: for an adapter with a basePath, list() and list({prefix}) without a
\* limit return exactly one entry per uploaded key under the prefix: no
\* entry for an object outside the adapter's namespace or for a sidecar, and
\* no uploaded object under the prefix left out.
C23_ListsOwnObjects ==
    (last.op = "list" /\ last.ok /\ config.basePath # <<>> /\ last.limit = None) =>
        LET Entries(ids) ==
                /\ Range(ids) = { getFullKey(config, k) :
                                    k \in { x \in SharedKeys :
                                              hist[x].touched /\ Under(x, last.prefix) } }
                /\ Len(ids) = Cardinality(Range(ids))
        IN  Entries(last.val[1].ids)

\* C27: FsAdapter.list never returns more than limit files, for limit 0 and
\* for a limit reached inside a nested directory as well, and resolves the
\* metadata of no more than limit entries.
C27_ListWithinLimit ==
    (adapter = "fs" /\ last.op = "list" /\ last.limit # None) =>
        /\ last.ok
        /\ Len(last.val[1].files) <= last.limit[1]
        /\ Cardinality({ i \in DOMAIN last.log : last.log[i].call = "readFile" })
              <= last.limit[1]

\* A listing with limit 1 has stopped inside the directory 'd' that holds
\* two files, after the first of them.
C27_StoppedInsideDirectory ==
    /\ adapter = "fs"
    /\ last.op = "list"
    /\ last.limit = Some(1)
    /\ last.prefix = <<"d">>
    /\ hist[KeyDB].touched
    /\ hist[KeyDE].touched
    /\ Len(last.val[1].files) = 1

----------------------------------------------------------------------------
(* BaseAdapter's helpers applied to keys, prefixes and inputs *)

Root == <<"r", "o", "o", "t">>
FileTxt == <<"f", "i", "l", "e", ".", "t", "x", "t">>
Nested == <<"n", "e", "s", "t", "e", "d">>
Other == <<"o", "t", "h", "e", "r">>

\* FileStorageAdapterConfig.basePath: unset, one segment, one segment with a
\* trailing slash, two segments.
HelperBasePaths == { <<>>, Root, Root \o <<"/">>, Root \o <<"/">> \o Nested }

\* Keys callers pass: a name, a nested name, a name with a doubled separator,
\* a name behind '..', a name with a leading separator.
HelperKeys ==
    { FileTxt,
      Nested \o <<"/">> \o FileTxt,
      Nested \o <<"/", "/">> \o FileTxt,
      <<".", ".", "/">> \o FileTxt,
      <<"/">> \o FileTxt }

\* Full keys a backend hands back.
HelperFullKeys ==
    { Root,
      Root \o <<"/">> \o FileTxt,
      Root \o <<"/">> \o Nested \o <<"/">> \o FileTxt,
      Root \o Other \o <<"/">> \o FileTxt,
      Other \o <<"/">> \o FileTxt,
      FileTxt }

\* Inputs of toBuffer: the Buffer 'data', the stream of Buffer 'hel' and string
\* 'lo', a File-like object of the bytes 1 2 3, an empty stream, a stream of a
\* two-byte character and two one-byte Buffers.
HelperInputs ==
    { BufferInput(<<100, 97, 116, 97>>),
      StreamInput(<<BufChunk(<<104, 101, 108>>), StrChunk(<<108, 111>>)>>),
      FileInput(<<1, 2, 3>>),
      StreamInput(<<>>),
      StreamInput(<<StrChunk(<<233>>), BufChunk(<<1>>), BufChunk(<<2>>)>>) }

\* The error the stream, or arrayBuffer(), of an input raises.
ReadError == Err("read failed")

\* await toBuffer(file): the for-await loop and arrayBuffer() reject with the
\* error the input raises (failed); a Buffer is returned without a read.
toBufferAwaited(file, failed) ==
    IF file.kind # "buffer" /\ failed
    THEN Throw(<<>>, ReadError, <<>>)
    ELSE Ret(<<>>, toBuffer(file), <<>>)

HelperInit ==
    /\ adapter \in Adapters
    /\ config \in { [basePath |-> b, baseUrl |-> <<>>] : b \in HelperBasePaths }
    /\ files = [p \in {} |-> p]
    /\ objects = [k \in {} |-> k]
    /\ last = Outcome("none", Ret(<<>>, TRUE, <<>>), {}, Ret(<<>>, TRUE, <<>>), NoArgs)
    /\ hist = [k \in Keys |-> NoHistory]
    /\ pg = Idle
    /\ inflight = NoUploads
    /\ opCount = 0

\* A helper returned r for the argument key.
Applied(op, r, key) ==
    /\ last' = Outcome(op, r, {}, r, [key |-> key])
    /\ UNCHANGED <<adapter, config, files, objects, hist, pg, inflight, opCount>>

ApplyGetFullKey(key) ==
    Applied("getFullKey", Ret(<<>>, getFullKey(config, key), <<>>), key)

ApplyStripBasePath(fullKey) ==
    Applied("stripBasePath", Ret(<<>>, stripBasePath(config, fullKey), <<>>), fullKey)

ApplyToBuffer(file, failed) ==
    /\ last' = Outcome("toBuffer", toBufferAwaited(file, failed),
                       IF failed THEN {"read"} ELSE {}, toBufferAwaited(file, FALSE),
                       [file |-> Some(file)])
    /\ UNCHANGED <<adapter, config, files, objects, hist, pg, inflight, opCount>>

HelperNext ==
    \/ \E key \in HelperKeys : ApplyGetFullKey(key)
    \/ \E fullKey \in HelperFullKeys : ApplyStripBasePath(fullKey)
    \/ \E file \in HelperInputs, failed \in BOOLEAN : ApplyToBuffer(file, failed)

HelperSpec == HelperInit /\ [][HelperNext]_vars

\* C21: for every key k (here: relative keys of plain segments) and every
\* basePath p (unset, with a trailing slash, of several segments),
\* stripBasePath of the full key getFullKey built from k is k again.
C21_KeyRoundTrip ==
    (last.op = "getFullKey" /\ last.key \in {FileTxt, Nested \o <<"/">> \o FileTxt})
        => stripBasePath(config, last.val[1]) = last.key

\* C22: with basePath p set, stripBasePath(fullKey) is the empty string when
\* fullKey is p, the remainder after p and the separator when fullKey starts
\* with p and the separator, and fullKey itself in every other case; with
\* basePath unset it is fullKey.  It never throws.
C22_StripBasePath ==
    (last.op = "stripBasePath" /\ ~EndsWith(config.basePath, <<"/">>)) =>
        LET Expected(p, fullKey) ==
                IF p = <<>> THEN fullKey
                ELSE IF fullKey = p THEN <<>>
                ELSE IF StartsWith(fullKey, p \o <<"/">>)
                THEN SubSeq(fullKey, Len(p) + 2, Len(fullKey))
                ELSE fullKey
        IN  /\ last.ok
            /\ last.val = Some(Expected(config.basePath, last.key))

\* C26: toBuffer returns the bytes of a Buffer input as they are, the bytes of
\* a File-like input's arrayBuffer(), and for a stream the concatenation of
\* its chunks in delivery order with string chunks encoded to bytes, nothing
\* left out; an error the stream or the read raises reaches the caller as it
\* is.
C26_ToBufferConcatenates ==
    last.op = "toBuffer" =>
        /\ ~last.faulted => /\ last.ok
                            /\ last.val = Some(Bytes(ContentOf(last.file[1])))
        /\ last.faulted => /\ ~last.ok
                           /\ last.err = Some(ReadError)
        /\ last.faulted <=> (last.file[1].kind # "buffer" /\ ~last.ok)

\* The stream of Buffer 'hel' and string 'lo' has been converted to 'hello'.
C26_HelloConverted ==
    /\ last.op = "toBuffer"
    /\ last.file = Some(StreamInput(<<BufChunk(<<104, 101, 108>>), StrChunk(<<108, 111>>)>>))
    /\ last.ok
    /\ last.val = Some(Bytes(<<104, 101, 108, 108, 111>>))

\* C28: with basePath p, the full key of every key, a key behind '..' or with
\* a leading separator included, lies under p, and the path FsAdapter reads
\* and writes for it lies inside rootDir/p.
C28_KeyStaysInNamespace ==
    (last.op = "getFullKey" /\ config.basePath # <<>>) =>
        /\ StartsWith(last.val[1], DirOf(config.basePath) \o <<"/">>)
        /\ adapter = "fs"
              => /\ StartsWith(getFilePath(config, last.key),
                               rootDir \o <<"/">> \o DirOf(config.basePath) \o <<"/">>)
                 /\ StartsWith(getMetadataPath(config, last.key),
                               rootDir \o <<"/">> \o DirOf(config.basePath) \o <<"/">>)

====
